---- MODULE Spec2Model ----
(***************************************************************************)
(* A model of the self-tracking application: the community server actions  *)
(* (createFindingAction, shareFindingAction, castVoteAction,               *)
(* reportFindingAction), the Lab page's experiment lifecycle, the metric   *)
(* lists of the Lab and Data pages and the Data page's axis                *)
(* synchronisation.                                                        *)
(***************************************************************************)
EXTENDS Integers, Sequences, FiniteSets, Bags, TLC

VARIABLES
    \* ---- database tables written by the server actions
    community_findings,   \* sequence of finding rows; a row's id is its index
    finding_votes,        \* bag of rows [user_id, finding_id, vote_type]
    finding_reports,      \* sequence of rows [user_id, finding_id, reason]
    findingResult,        \* how the latest createFindingAction / shareFindingAction ended
    \* ---- castVoteAction calls in flight
    pc,                   \* call -> "idle" | "select" | "write" | "invoke"
    voteArgs,             \* call -> [userId, findingId, voteType]
    existingVote,         \* call -> the row the select returned, or NoRow
    voteResult,           \* what the castVoteAction call that returned last returned
    reportResult,         \* what the reportFindingAction call that returned last returned
    ranAlone,             \* call -> no other call has overlapped it
    \* ---- trackable items and the metric lists the pages derive from them
    trackableItems,       \* the fetched items, [id, category, type] each
    labInputMetrics,      \* Lab page: inputMetrics
    labOutputMetrics,     \* Lab page: outputMetrics
    dataInputMetrics,     \* Data page: inputMetrics
    dataOutputMetrics,    \* Data page: outputMetrics
    \* ---- Data page: selection, fetched series and axis synchronisation
    primaryMetric,        \* type of the selected primary metric, or NoMetric
    comparisonMetric,     \* type of the selected comparison metric, or NoMetric
    rawChartData,         \* sequence of [date, primaryValue, comparisonValue]
    chartData,            \* the processed series
    axisConfig,           \* the axis configuration, or NoConfig
    shouldFetchChart,     \* the chart has been requested (Update Chart)
    correlationCall,      \* the arrays given to calculatePearsonCorrelation, or NoCall
    correlationScore,     \* the correlationScore memo: Some(r) or NullValue
    correlationCard,      \* the CorrelationCard is rendered
    \* ---- Lab page and the experiments table
    today,                \* the current date, as a day number
    dbExperiments,        \* experiments table: id -> [status, end_date]
    experiments,          \* the experiments query data, [id, status, end_date] each
    fetching,             \* the experiments query is being (re)fetched
    statusRequests,       \* updateExperimentStatus calls in flight
    statusLatest,         \* the call updateStatusMutation observes, or NoRequest
    deleteRequests,       \* deleteExperiment calls in flight
    deleteLatest,         \* the call deleteMutation observes, or NoRequest
    activeTab,            \* "active" | "completed"
    activeExperiments,    \* the memo of the Active list
    completedExperiments, \* the memo of the Completed list
    renderScheduled,      \* state changed since the last render
    \* ---- Lab page: the results of a completed experiment
    analyses,             \* analyzeExperimentResults calls in flight (experiment ids)
    analyzingId,          \* the experiment whose button shows as loading, or NoExperiment
    selectedResults,      \* the results given to the dialog, or NoResults
    showResultsDialog,    \* the results dialog is open
    resultsView,          \* what the results dialog renders
    lastRequested,        \* the experiment of the latest View Results request
    latestResolved,       \* an analysis of that experiment has resolved since
    \* ---- the query cache of chart data (Data page and Create Finding preview)
    user,                 \* the signed-in user
    queryCache,           \* set of [queryKey, request]: the request that filled the entry
    chartServed,          \* the latest chart data a page got: for which request, made for which
    \* ---- the arguments of the latest castVoteAction / reportFindingAction call
    lastCall,             \* [action, session, userId, findingId, seq], seq counting the calls
    \* ---- Lab page: the duration and progress shown on an experiment card
    labCard,              \* the card rendered last, or NoCard
    \* ---- Lab page: what has happened to the experiments so far
    reactivated,          \* ids reactivated by the user and not completed or deleted since
    autoIssued            \* auto-update mutate calls made since the experiments data arrived

serverVars == <<community_findings, finding_votes, finding_reports,
                findingResult, pc, voteArgs, existingVote, voteResult,
                reportResult, ranAlone>>

itemVars == <<trackableItems, labInputMetrics, labOutputMetrics,
              dataInputMetrics, dataOutputMetrics>>

dataVars == <<primaryMetric, comparisonMetric, rawChartData, chartData,
              axisConfig, shouldFetchChart, correlationCall, correlationScore,
              correlationCard>>

labVars == <<today, dbExperiments, experiments, fetching,
             statusRequests, statusLatest, deleteRequests, deleteLatest,
             activeTab, activeExperiments, completedExperiments,
             renderScheduled>>

resultsVars == <<analyses, analyzingId, selectedResults, showResultsDialog,
                 resultsView, lastRequested, latestResolved>>

cacheVars == <<user, queryCache, chartServed>>

callVars == <<lastCall>>

cardVars == <<labCard>>

historyVars == <<reactivated, autoIssued>>

vars == <<serverVars, itemVars, dataVars, labVars, resultsVars, cacheVars,
          callVars, cardVars, historyVars>>

----------------------------------------------------------------------------
(* Bounds *)
MaxFindings == 2
MaxVotes    == 2
MaxReports  == 1
MaxItems    == 3
MaxDays     == 2
MaxDate     == 2
MaxCached   == 3
MaxCalls    == 3
MaxDay      == 4
MaxIssued   == 3

Users      == {1, 2}
FindingIds == 1..MaxFindings
\* two castVoteAction calls can be in flight together
Calls      == {1, 2}
\* The empty string given as an id: falsy in `!userId || !findingId`.
EmptyId    == 0
\* auth.getUser() returning no user.
NoUser     == 0
VoteTypes  == {"upvote", "downvote"}
NoRow      == [vote_type |-> "none"]
Null       == "null"

----------------------------------------------------------------------------
(* Strings as sequences of characters, with String.prototype.trim *)
RECURSIVE TrimStart(_)
TrimStart(s) ==
    IF s = <<>> THEN s
    ELSE IF Head(s) = " " THEN TrimStart(Tail(s)) ELSE s

RECURSIVE TrimEnd(_)
TrimEnd(s) ==
    IF s = <<>> THEN s
    ELSE IF s[Len(s)] = " " THEN TrimEnd(SubSeq(s, 1, Len(s) - 1)) ELSE s

Trim(s) == TrimEnd(TrimStart(s))

\* JSON.parse succeeds on the chartConfig field
ValidJSON(s) == s = "{}"

\* formData.get(name) of a field the form does not have
Missing == "null"

\* a field taken as given whenever it is a string
Blank_EmptyOnly(field) == field = Missing \/ field = <<>>

\* !field?.trim()
Blank(field) == field = Missing \/ Trim(field) = <<>>

----------------------------------------------------------------------------
(* finding_votes: rows and the queries castVoteAction issues *)
VoteRow(u, f, t) == [user_id |-> u, finding_id |-> f, vote_type |-> t]

Matches(r, u, f) == r.user_id = u /\ r.finding_id = f

RECURSIVE SumCopies(_, _)
SumCopies(S, B) ==
    IF S = {} THEN 0
    ELSE LET r == CHOOSE x \in S : TRUE
         IN  CopiesIn(r, B) + SumCopies(S \ {r}, B)

\* number of rows of the table for the pair (u, f)
CountVotes(votes, u, f) ==
    SumCopies({r \in BagToSet(votes) : Matches(r, u, f)}, votes)

\* .select('*').eq('user_id', u).eq('finding_id', f).single():
\* the row when exactly one matches, otherwise error PGRST116 and no data
SelectSingle(votes, u, f) ==
    IF CountVotes(votes, u, f) = 1
    THEN CHOOSE r \in BagToSet(votes) : Matches(r, u, f)
    ELSE NoRow

\* .delete().eq('user_id', u).eq('finding_id', f)
DeleteVotes(votes, u, f) ==
    [r \in {x \in BagToSet(votes) : ~Matches(x, u, f)} |-> votes[r]]

\* .insert({user_id, finding_id, vote_type})
InsertVote(votes, u, f, t) == votes (+) SetToBag({VoteRow(u, f, t)})

\* a changed vote written as a new row, the old one left in place
UpdateVotes_AsInsert(votes, u, f, t) == InsertVote(votes, u, f, t)

\* .update({vote_type: t}).eq('user_id', u).eq('finding_id', f)
UpdateVotes(votes, u, f, t) ==
    LET n == CountVotes(votes, u, f)
        rest == DeleteVotes(votes, u, f)
    IN  IF n = 0 THEN votes
        ELSE rest (+) [r \in {VoteRow(u, f, t)} |-> n]

----------------------------------------------------------------------------
(* community_findings *)
\* a row that takes its author from no one
FindingRow_NoAuthor(author, title, content, shareData, chartConfig, experimentId) ==
    [author_id |-> NoUser, title |-> title, content |-> content,
     share_data |-> shareData, chart_config |-> chartConfig,
     experiment_id |-> experimentId, upvotes |-> 0, downvotes |-> 0]

\* insertData, with the columns the table defaults
FindingRow(author, title, content, shareData, chartConfig, experimentId) ==
    [author_id |-> author, title |-> title, content |-> content,
     share_data |-> shareData, chart_config |-> chartConfig,
     experiment_id |-> experimentId, upvotes |-> 0, downvotes |-> 0]

\* an upsert that overwrites the latest row
InsertFinding_Overwrite(findings, row) ==
    IF findings = <<>> THEN <<row>>
    ELSE [findings EXCEPT ![Len(findings)] = row]

\* .from('community_findings').insert(insertData): a new row with a new id
InsertFinding(findings, row) == Append(findings, row)

\* The vote-processor Edge Function castVoteAction invokes "to update cached
\* counts": it recounts the finding's votes into its upvotes / downvotes.
VoteProcessor(findings, votes, f) ==
    IF f \in 1..Len(findings)
    THEN [findings EXCEPT
            ![f].upvotes =
                SumCopies({r \in BagToSet(votes) :
                    r.finding_id = f /\ r.vote_type = "upvote"}, votes),
            ![f].downvotes =
                SumCopies({r \in BagToSet(votes) :
                    r.finding_id = f /\ r.vote_type = "downvote"}, votes)]
    ELSE findings

----------------------------------------------------------------------------
(* How a server action ends: it returns a value or throws *)
NoResult == [action |-> "none"]

Return(value) == [kind |-> "return", value |-> value]

Throw(error) == [kind |-> "throw", error |-> error]

\* redirect(url) of next/navigation: it throws the redirect signal
Redirect(url) == Throw([digest |-> "NEXT_REDIRECT", url |-> url])

\* the try block of createFindingAction, up to the insert
CreateFindingChecks(session, title, content, chartConfigStr) ==
    IF session = NoUser
    THEN Return([message |-> "You must be logged in to create a finding"])
    ELSE IF Blank(title) THEN Return([message |-> "Title is required"])
    ELSE IF Blank(content) THEN Return([message |-> "Content is required"])
    ELSE IF chartConfigStr # "" /\ ~ValidJSON(chartConfigStr)
    THEN Return([message |-> "Invalid chart configuration"])
    ELSE Return([message |-> ""])

\* catch (error) { return { message: 'An unexpected error occurred ...' } }
CreateFindingCatch(completion) ==
    IF completion.kind = "throw"
    THEN Return([message |-> "An unexpected error occurred while creating the finding"])
    ELSE completion

\* catch (error) { throw error }
ShareFindingCatch(completion) == completion

(* createFindingAction(prevState, formData), with the session's user *)
CreateFindingAction(session, title, content, shareData, chartConfigStr, experimentId, insertFails) ==
    /\ Len(community_findings) < MaxFindings
    /\ IF \/ session = NoUser
          \/ Blank(title)
          \/ Blank(content)
          \/ (chartConfigStr # "" /\ ~ValidJSON(chartConfigStr))
          \/ insertFails
       THEN /\ UNCHANGED community_findings
            /\ findingResult' =
                [action |-> "create", session |-> session,
                 input |-> [title |-> title, content |-> content,
                            chartConfig |-> chartConfigStr,
                            experimentId |-> experimentId],
                 inserted |-> 0, revalidated |-> FALSE,
                 completion |-> CreateFindingCatch(
                    IF CreateFindingChecks(session, title, content, chartConfigStr)
                            # Return([message |-> ""])
                    THEN CreateFindingChecks(session, title, content, chartConfigStr)
                    ELSE Return([message |-> "Failed to create finding"]))]
       ELSE /\ community_findings' = InsertFinding(community_findings,
                FindingRow(session, Trim(title), Trim(content), shareData,
                           IF chartConfigStr # "" THEN "parsed" ELSE Null,
                           IF experimentId # "" THEN experimentId ELSE Null))
            /\ findingResult' =
                [action |-> "create", session |-> session,
                 input |-> [title |-> title, content |-> content,
                            chartConfig |-> chartConfigStr,
                            experimentId |-> experimentId],
                 inserted |-> Len(community_findings'),
                 revalidated |-> TRUE,
                 completion |-> CreateFindingCatch(
                    Redirect(<<"/community/", Len(community_findings')>>))]
    /\ UNCHANGED <<finding_votes, finding_reports,
                   pc, voteArgs, existingVote, voteResult, reportResult, ranAlone>>

(* shareFindingAction(data), with the session's user *)
ShareFindingAction(session, type, title, content, shareData, experimentId, insertFails) ==
    /\ Len(community_findings) < MaxFindings
    /\ IF session = NoUser \/ insertFails
       THEN /\ UNCHANGED community_findings
            /\ findingResult' =
                [action |-> "share", session |-> session,
                 input |-> [type |-> type, experimentId |-> experimentId],
                 inserted |-> 0, revalidated |-> FALSE,
                 completion |-> ShareFindingCatch(
                    IF session = NoUser
                    THEN Throw("You must be logged in to share a finding")
                    ELSE Throw("Failed to share finding"))]
       ELSE /\ community_findings' = InsertFinding(community_findings,
                FindingRow(session, title, content, shareData,
                           IF type = "chart" THEN "chartSelection" ELSE Null,
                           IF type = "experiment" /\ experimentId # ""
                           THEN experimentId ELSE Null))
            /\ findingResult' =
                [action |-> "share", session |-> session,
                 input |-> [type |-> type, experimentId |-> experimentId],
                 inserted |-> Len(community_findings'),
                 revalidated |-> TRUE,
                 completion |-> ShareFindingCatch(
                    Return([success |-> TRUE, finding |-> Len(community_findings')]))]
    /\ UNCHANGED <<finding_votes, finding_reports,
                   pc, voteArgs, existingVote, voteResult, reportResult, ranAlone>>

\* a caller accepted as soon as someone is signed in
CallerRejected_AnySession(session, userId, findingId) ==
    userId = EmptyId \/ findingId = EmptyId \/ session = NoUser

\* !userId || !findingId, then userError || !user || user.id !== userId
CallerRejected(session, userId, findingId) ==
    \/ userId = EmptyId \/ findingId = EmptyId
    \/ session = NoUser \/ session # userId

(* reportFindingAction(userId, findingId, reason), with the session's user *)
ReportFindingAction(session, userId, findingId, reason, insertFails) ==
    /\ Len(finding_reports) < MaxReports
    /\ IF CallerRejected(session, userId, findingId) \/ insertFails
       THEN /\ UNCHANGED finding_reports
            /\ reportResult' = "error"
       ELSE /\ finding_reports' = Append(finding_reports,
                    [user_id |-> userId, finding_id |-> findingId,
                     reason |-> IF reason # "" THEN reason ELSE Null])
            /\ reportResult' = "success"
    /\ UNCHANGED <<community_findings, finding_votes, findingResult,
                   pc, voteArgs, existingVote, voteResult, ranAlone>>

----------------------------------------------------------------------------
(* castVoteAction(userId, findingId, voteType): one step per awaited call *)
InFlight(c) == pc[c] # "idle"

NoArgs == [userId |-> EmptyId, findingId |-> EmptyId, voteType |-> "upvote"]

\* the call returns: its locals are gone, the caller holds the result
VoteReturn(c, result) ==
    /\ pc' = [pc EXCEPT ![c] = "idle"]
    /\ voteArgs' = [voteArgs EXCEPT ![c] = NoArgs]
    /\ existingVote' = [existingVote EXCEPT ![c] = NoRow]
    /\ voteResult' = result
    /\ ranAlone' = [ranAlone EXCEPT ![c] = FALSE]

\* argument check, createClient and auth.getUser
CastVoteStart(c, session, userId, findingId, voteType) ==
    /\ pc[c] = "idle"
    /\ IF CallerRejected(session, userId, findingId)
       THEN VoteReturn(c, "error")
       ELSE /\ pc' = [pc EXCEPT ![c] = "select"]
            /\ voteArgs' = [voteArgs EXCEPT ![c] =
                    [userId |-> userId, findingId |-> findingId,
                     voteType |-> voteType]]
            /\ ranAlone' = [d \in Calls |->
                    IF d = c THEN \A e \in Calls \ {c} : ~InFlight(e)
                    ELSE FALSE]
            /\ UNCHANGED <<existingVote, voteResult>>
    /\ UNCHANGED <<community_findings, finding_votes, finding_reports, findingResult,
                   reportResult>>

\* "First, check if user has already voted"
CastVoteSelect(c, fetchFails) ==
    /\ pc[c] = "select"
    /\ IF fetchFails
       THEN VoteReturn(c, "error")
       ELSE /\ existingVote' = [existingVote EXCEPT ![c] =
                    SelectSingle(finding_votes, voteArgs[c].userId,
                                 voteArgs[c].findingId)]
            /\ pc' = [pc EXCEPT ![c] = "write"]
            /\ UNCHANGED <<voteArgs, voteResult, ranAlone>>
    /\ UNCHANGED <<community_findings, finding_votes, finding_reports, findingResult,
                   reportResult>>

\* a repeated vote of the same type kept instead of removed
VoteWrite_NoToggle(votes, existing, a) ==
    IF existing # NoRow
    THEN UpdateVotes(votes, a.userId, a.findingId, a.voteType)
    ELSE InsertVote(votes, a.userId, a.findingId, a.voteType)

\* the delete, update or insert the existing vote selects
VoteWrite(votes, existing, a) ==
    IF existing # NoRow
    THEN IF existing.vote_type = a.voteType
         THEN DeleteVotes(votes, a.userId, a.findingId)
         ELSE UpdateVotes(votes, a.userId, a.findingId, a.voteType)
    ELSE InsertVote(votes, a.userId, a.findingId, a.voteType)

CastVoteWrite(c, writeFails) ==
    /\ pc[c] = "write"
    /\ IF writeFails
       THEN /\ VoteReturn(c, "error")
            /\ UNCHANGED finding_votes
       ELSE /\ BagCardinality(VoteWrite(finding_votes, existingVote[c],
                                        voteArgs[c])) <= MaxVotes
            /\ finding_votes' = VoteWrite(finding_votes, existingVote[c],
                                          voteArgs[c])
            /\ pc' = [pc EXCEPT ![c] = "invoke"]
            /\ UNCHANGED <<voteArgs, existingVote, voteResult, ranAlone>>
    /\ UNCHANGED <<community_findings, finding_reports, findingResult,
                   reportResult>>

\* a failed vote-processor call reported to the caller
InvokeOutcome_Reported(invokeFails) == IF invokeFails THEN "error" ELSE "success"

\* "Don't return error here - the vote was still recorded"
InvokeOutcome(invokeFails) == "success"

\* functions.invoke('vote-processor'), revalidatePath, return {success: true}
CastVoteInvoke(c, invokeFails) ==
    /\ pc[c] = "invoke"
    /\ IF invokeFails
       THEN UNCHANGED community_findings
       ELSE community_findings' = VoteProcessor(community_findings,
                finding_votes, voteArgs[c].findingId)
    /\ VoteReturn(c, InvokeOutcome(invokeFails))
    /\ UNCHANGED <<finding_votes, finding_reports, findingResult,
                   reportResult>>

----------------------------------------------------------------------------
(* Trackable items and the lists offered as metrics *)
Categories  == {"INPUT", "OUTPUT"}
MetricTypes == {"NUMERIC", "SCALE_1_10", "BOOLEAN", "TEXT"}

\* every list of at most MaxItems items; an item's id is its position
ItemLists ==
    UNION {[1..n -> [category : Categories, type : MetricTypes]] :
                n \in 0..MaxItems}

WithIds(items) ==
    [i \in 1..Len(items) |->
        [id |-> i, category |-> items[i].category, type |-> items[i].type]]

\* Lab page: trackableItems.filter(item => item.category === 'INPUT')
LabInputMetrics(items) ==
    SelectSeq(items, LAMBDA item : item.category = "INPUT")

\* Lab page: OUTPUT items of type SCALE_1_10 or NUMERIC
LabOutputMetrics(items) ==
    SelectSeq(items, LAMBDA item :
        item.category = "OUTPUT" /\ (item.type = "SCALE_1_10" \/ item.type = "NUMERIC"))

\* Data page: OUTPUT items of type SCALE_1_10 or NUMERIC
DataOutputMetrics(items) ==
    SelectSeq(items, LAMBDA item :
        item.category = "OUTPUT" /\ (item.type = "SCALE_1_10" \/ item.type = "NUMERIC"))

\* Data page: INPUT items of type SCALE_1_10, NUMERIC or BOOLEAN
DataInputMetrics(items) ==
    SelectSeq(items, LAMBDA item :
        item.category = "INPUT" /\ (item.type = "SCALE_1_10" \/ item.type = "NUMERIC"
                                     \/ item.type = "BOOLEAN"))

\* the lists both pages compute from the items on render
RenderMetricLists(items) ==
    /\ trackableItems' = items
    /\ labInputMetrics' = LabInputMetrics(items)
    /\ labOutputMetrics' = LabOutputMetrics(items)
    /\ dataInputMetrics' = DataInputMetrics(items)
    /\ dataOutputMetrics' = DataOutputMetrics(items)

\* the trackableItems query resolves
TrackableItemsFetched(items) ==
    /\ trackableItems = <<>>
    /\ items # <<>>
    /\ RenderMetricLists(WithIds(items))

\* the query key changes (another user): data is undefined, the default is []
TrackableItemsReset ==
    /\ trackableItems # <<>>
    /\ RenderMetricLists(<<>>)

ItemsInit ==
    /\ trackableItems = <<>>
    /\ labInputMetrics = <<>>
    /\ labOutputMetrics = <<>>
    /\ dataInputMetrics = <<>>
    /\ dataOutputMetrics = <<>>

----------------------------------------------------------------------------
(* Data page: axis synchronisation.  A value is <<v>> or NullValue; axis      *)
(* numbers are kept in hundredths, so that 1.1, 2.5 and 7.5 are exact.        *)
NoMetric  == "undefined"
NoConfig  == [kind |-> "null"]
NullValue == <<>>
Some(v)   == <<v>>
\* logged values: 0 and 1 are also the booleans false and true
Values    == {0, 1, 2, 20}
\* the maximum used for a series without values
DefaultMax == 10

Max2(a, b) == IF a >= b THEN a ELSE b
\* Math.max(...values)
MaxOf(S) == CHOOSE m \in S : \A x \in S : x <= m
\* v * 1.1
Times1_1(v) == v * 110
\* the headroom without the floor of 1
ScaledMax_NoFloor(v) == Times1_1(v)

\* Math.max(v * 1.1, 1)
ScaledMax(v) == Max2(Times1_1(v), 100)

ScaleDomain == <<100, 1000>>

\* every series of at most MaxDays records, one record per day
Series ==
    UNION {[1..n -> [primaryValue : {NullValue} \cup {Some(v) : v \in Values},
                     comparisonValue : {NullValue} \cup {Some(v) : v \in Values}]] :
                n \in 0..MaxDays}

WithDates(series) ==
    [i \in 1..Len(series) |->
        [date |-> i, primaryValue |-> series[i].primaryValue,
         comparisonValue |-> series[i].comparisonValue]]

\* the values of a column that are neither null nor undefined
Observed(raw, column) ==
    {raw[i][column][1] : i \in {j \in 1..Len(raw) : raw[j][column] # NullValue}}

\* normalisation by truthiness: comparisonValue ? 7.5 : 2.5
NormalizeBoolean_Truthy(d) ==
    [date |-> d.date, primaryValue |-> d.primaryValue,
     comparisonValue |-> d.comparisonValue,
     normalizedComparisonValue |->
        IF d.comparisonValue # NullValue /\ d.comparisonValue # Some(0)
        THEN Some(750) ELSE Some(250)]

\* Scenario C: comparisonValue === 1 ? 7.5 : comparisonValue === 0 ? 2.5 : null
NormalizeBoolean(d) ==
    [date |-> d.date, primaryValue |-> d.primaryValue,
     comparisonValue |-> d.comparisonValue,
     normalizedComparisonValue |->
        IF d.comparisonValue = Some(1) THEN Some(750)
        ELSE IF d.comparisonValue = Some(0) THEN Some(250)
        ELSE NullValue]

\* a boolean comparison normalised whatever the primary metric
Scenario_BooleanAnyPrimary(primary, comparison) ==
    IF comparison = NoMetric THEN "single"
    ELSE IF primary = "NUMERIC" /\ comparison = "SCALE_1_10" THEN "A"
    ELSE IF primary = "SCALE_1_10" /\ comparison = "NUMERIC" THEN "B"
    ELSE IF comparison = "BOOLEAN" THEN "C"
    ELSE "default"

\* the branch of the if / else-if chain taken for a pair of types
Scenario(primary, comparison) ==
    IF comparison = NoMetric THEN "single"
    ELSE IF primary = "NUMERIC" /\ comparison = "SCALE_1_10" THEN "A"
    ELSE IF primary = "SCALE_1_10" /\ comparison = "NUMERIC" THEN "B"
    ELSE IF primary = "SCALE_1_10" /\ comparison = "BOOLEAN" THEN "C"
    ELSE "default"

\* the useMemo computing {chartData, axisConfig}
AxisSynchronization(raw, primary, comparison) ==
    IF primary = NoMetric \/ Len(raw) = 0
    THEN [chartData |-> raw, axisConfig |-> NoConfig]
    ELSE
    LET primaryValues == Observed(raw, "primaryValue")
        comparisonValues == Observed(raw, "comparisonValue")
        primaryMax == IF primaryValues # {} THEN MaxOf(primaryValues) ELSE DefaultMax
        comparisonMax == IF comparisonValues # {} THEN MaxOf(comparisonValues)
                         ELSE DefaultMax
        scenario == Scenario(primary, comparison)
    IN  IF scenario = "single"
        THEN [chartData |-> raw,
              axisConfig |->
                [leftDomain |-> IF primary = "SCALE_1_10" THEN ScaleDomain
                                ELSE <<0, ScaledMax(primaryMax)>>,
                 rightDomain |-> <<0, 1000>>,
                 rightTickFormatter |-> "undefined",
                 rightTicks |-> <<>>,
                 normalizeComparison |-> FALSE]]
        ELSE IF scenario = "A"
        THEN [chartData |-> raw,
              axisConfig |->
                [leftDomain |-> <<0, ScaledMax(primaryMax)>>,
                 rightDomain |-> <<0, ScaledMax(primaryMax)>>,
                 rightTickFormatter |-> "scale",
                 rightTicks |-> [k \in 1..10 |-> (k * ScaledMax(primaryMax)) \div 10],
                 normalizeComparison |-> FALSE]]
        ELSE IF scenario = "B"
        THEN [chartData |-> raw,
              axisConfig |->
                [leftDomain |-> ScaleDomain,
                 rightDomain |-> <<0, ScaledMax(comparisonMax)>>,
                 rightTickFormatter |-> "undefined",
                 rightTicks |-> <<>>,
                 normalizeComparison |-> FALSE]]
        ELSE IF scenario = "C"
        THEN [chartData |-> [i \in 1..Len(raw) |-> NormalizeBoolean(raw[i])],
              axisConfig |->
                [leftDomain |-> ScaleDomain,
                 rightDomain |-> ScaleDomain,
                 rightTickFormatter |-> "yesNo",
                 rightTicks |-> <<250, 750>>,
                 normalizeComparison |-> TRUE]]
        ELSE [chartData |-> raw,
              axisConfig |->
                [leftDomain |-> IF primary = "SCALE_1_10" THEN ScaleDomain
                                ELSE <<0, ScaledMax(primaryMax)>>,
                 rightDomain |-> IF comparison = "SCALE_1_10" THEN ScaleDomain
                                 ELSE <<0, ScaledMax(comparisonMax)>>,
                 rightTickFormatter |-> "undefined",
                 rightTicks |-> <<>>,
                 normalizeComparison |-> FALSE]]

----------------------------------------------------------------------------
(* Data page: the correlation score *)
NoCall == [called |-> FALSE]

RECURSIVE SumSeq(_)
SumSeq(xs) == IF xs = <<>> THEN 0 ELSE Head(xs) + SumSeq(Tail(xs))

Products(xs, ys) == [i \in 1..Len(xs) |-> xs[i] * ys[i]]

\* n * sum(x y) - sum(x) sum(y)
Covariance(xs, ys) ==
    Len(xs) * SumSeq(Products(xs, ys)) - SumSeq(xs) * SumSeq(ys)

\* the coefficient computed without testing the denominator
CalculatePearsonCorrelation_Unguarded(xs, ys) ==
    IF Len(xs) < 2 THEN NullValue
    ELSE IF Covariance(xs, xs) * Covariance(ys, ys) = 0
         THEN Some(IF Covariance(xs, ys) = 0 THEN "NaN" ELSE "Infinity")
         ELSE Some([numerator |-> Covariance(xs, ys),
                    denominatorSquared |-> Covariance(xs, xs) * Covariance(ys, ys)])

\* pearsonCorrelation(xs, ys): null for fewer than 2 points or when either
\* sequence has zero variance; otherwise numerator / sqrt(denominatorSquared)
CalculatePearsonCorrelation(xs, ys) ==
    IF Len(xs) < 2 THEN NullValue
    ELSE IF Covariance(xs, xs) = 0 \/ Covariance(ys, ys) = 0 THEN NullValue
    ELSE Some([numerator |-> Covariance(xs, ys),
               denominatorSquared |-> Covariance(xs, xs) * Covariance(ys, ys)])

\* value !== null && value !== undefined
IsPresent(value) == value # NullValue

\* the value charted for the comparison metric, normalised where there is one
ComparisonValueOf_Charted(dataPoint) ==
    IF /\ "normalizedComparisonValue" \in DOMAIN dataPoint
       /\ dataPoint.normalizedComparisonValue # NullValue
    THEN dataPoint.normalizedComparisonValue[1]
    ELSE dataPoint.comparisonValue[1]

\* comparisonValues.push(dataPoint.comparisonValue)
ComparisonValueOf(dataPoint) == dataPoint.comparisonValue[1]

\* the forEach filling primaryValues and comparisonValues
RECURSIVE PairedValues(_)
PairedValues(data) ==
    IF data = <<>> THEN [primaryValues |-> <<>>, comparisonValues |-> <<>>]
    ELSE LET dataPoint == Head(data)
             rest == PairedValues(Tail(data))
         IN  IF IsPresent(dataPoint.primaryValue) /\ IsPresent(dataPoint.comparisonValue)
             THEN [primaryValues |-> <<dataPoint.primaryValue[1]>> \o rest.primaryValues,
                   comparisonValues |->
                        <<ComparisonValueOf(dataPoint)>> \o rest.comparisonValues]
             ELSE rest

\* one paired point taken as enough
EnoughPairs_One(n) == n >= 1

\* primaryValues.length >= 2
EnoughPairs(n) == n >= 2

\* the correlationScore useMemo: the call it makes, if any, and its result
Correlation(data, primary, comparison) ==
    IF primary = NoMetric \/ comparison = NoMetric \/ Len(data) = 0
    THEN [call |-> NoCall, score |-> NullValue]
    ELSE LET paired == PairedValues(data)
         IN  IF EnoughPairs(Len(paired.primaryValues))
             THEN [call |-> [called |-> TRUE,
                             xs |-> paired.primaryValues,
                             ys |-> paired.comparisonValues],
                   score |-> CalculatePearsonCorrelation(paired.primaryValues,
                                                         paired.comparisonValues)]
             ELSE [call |-> NoCall, score |-> NullValue]

\* shouldFetchChart && correlationScore !== null && primaryMetric &&
\* comparisonMetric && comparisonMetricId !== 'none'
CorrelationCardShown(requested, score, primary, comparison) ==
    requested /\ score # NullValue /\ primary # NoMetric /\ comparison # NoMetric

\* a render of the Data page with this selection and this query data
RenderDataPage(primary, comparison, raw) ==
    /\ primaryMetric' = primary
    /\ comparisonMetric' = comparison
    /\ rawChartData' = raw
    /\ chartData' = AxisSynchronization(raw, primary, comparison).chartData
    /\ axisConfig' = AxisSynchronization(raw, primary, comparison).axisConfig
    /\ correlationCall' = Correlation(chartData', primary, comparison).call
    /\ correlationScore' = Correlation(chartData', primary, comparison).score
    /\ correlationCard' =
        CorrelationCardShown(shouldFetchChart', correlationScore', primary, comparison)

\* setPrimaryMetricId: a new query key, whose data is not fetched yet
SetPrimaryMetric(type) ==
    /\ type # primaryMetric
    /\ UNCHANGED shouldFetchChart
    /\ RenderDataPage(type, comparisonMetric, <<>>)

\* setComparisonMetricId ('none' included): a new query key
SetComparisonMetric(type) ==
    /\ type # comparisonMetric
    /\ UNCHANGED shouldFetchChart
    /\ RenderDataPage(primaryMetric, type, <<>>)

\* handleUpdateChart: the chart query is enabled from now on
HandleUpdateChart ==
    /\ primaryMetric # NoMetric
    /\ ~shouldFetchChart
    /\ shouldFetchChart' = TRUE
    /\ RenderDataPage(primaryMetric, comparisonMetric, rawChartData)

\* the results the chart query can resolve with: none unless it is enabled
\* (a primary metric and shouldFetchChart) and its key has no data yet
PendingSeries ==
    IF primaryMetric # NoMetric /\ shouldFetchChart /\ rawChartData = <<>>
    THEN Series ELSE {}

\* getDualMetricChartData resolves for the current selection
ChartDataFetched(series) ==
    /\ primaryMetric # NoMetric
    /\ shouldFetchChart
    /\ rawChartData = <<>>
    /\ series # <<>>
    /\ UNCHANGED shouldFetchChart
    /\ RenderDataPage(primaryMetric, comparisonMetric, WithDates(series))

DataInit ==
    /\ primaryMetric = NoMetric
    /\ comparisonMetric = NoMetric
    /\ rawChartData = <<>>
    /\ chartData = <<>>
    /\ axisConfig = NoConfig
    /\ shouldFetchChart = FALSE
    /\ correlationCall = NoCall
    /\ correlationScore = NullValue
    /\ correlationCard = FALSE

----------------------------------------------------------------------------
(* Lab page: the experiments query, the status and delete mutations and the  *)
(* Active / Completed lists.  Dates are day numbers: 'YYYY-MM-DD' strings    *)
(* compare as their days do.                                                 *)
ExperimentIds == {1, 2}
Dates         == 1..MaxDate
Statuses      == {"ACTIVE", "COMPLETED"}
NoRequest     == [id |-> 0]

\* getExperiments: the rows of the table, by id
RECURSIVE RowsOf(_, _)
RowsOf(db, ids) ==
    IF ids = {} THEN <<>>
    ELSE LET i == CHOOSE x \in ids : \A y \in ids : x <= y
         IN  <<[id |-> i, status |-> db[i].status, end_date |-> db[i].end_date]>>
             \o RowsOf(db, ids \ {i})

GetExperiments(db) == RowsOf(db, DOMAIN db)

Expired_OnTheDay(exp, day) == exp.status = "ACTIVE" /\ exp.end_date <= day

\* exp.status === 'ACTIVE' && exp.end_date < today
Expired(exp, day) == exp.status = "ACTIVE" /\ exp.end_date < day

\* the filter of the activeExperiments memo
ActiveExperiments(exps, day) ==
    SelectSeq(exps, LAMBDA exp : ~Expired(exp, day) /\ exp.status = "ACTIVE")

CompletedExperiments(exps) ==
    SelectSeq(exps, LAMBDA exp : exp.status = "COMPLETED")

\* experimentsToDisplay
ExperimentsToDisplay ==
    IF activeTab = "active" THEN activeExperiments ELSE completedExperiments

\* a call updateStatusMutation.mutate({id, status}), with the experiment as
\* the page held it and the handler that made the call
StatusRequest(exp, status, by) ==
    [id |-> exp.id, status |-> status, shown |-> exp, by |-> by]

\* the auto-update calls the activeExperiments memo makes
AutoRequests(exps, day) ==
    {StatusRequest(exps[i], "COMPLETED", "auto") :
        i \in {j \in 1..Len(exps) : Expired(exps[j], day)}}

LastExpired(exps, day) ==
    exps[CHOOSE i \in 1..Len(exps) :
            /\ Expired(exps[i], day)
            /\ \A j \in 1..Len(exps) : Expired(exps[j], day) => j <= i]

\* a render of LabPage: both memos, and the mutate calls of the first
Render ==
    /\ renderScheduled
    /\ activeExperiments' = ActiveExperiments(experiments, today)
    /\ completedExperiments' = CompletedExperiments(experiments)
    /\ statusRequests' = statusRequests \cup AutoRequests(experiments, today)
    /\ IF AutoRequests(experiments, today) # {}
       THEN /\ statusLatest' = StatusRequest(LastExpired(experiments, today),
                                             "COMPLETED", "auto")
            /\ renderScheduled' = TRUE
       ELSE /\ UNCHANGED statusLatest
            /\ renderScheduled' = FALSE
    /\ UNCHANGED <<today, dbExperiments, experiments, fetching,
                   deleteRequests, deleteLatest, activeTab>>

\* the experiments query resolves with the rows of the table
ExperimentsFetched ==
    /\ fetching
    /\ experiments' = GetExperiments(dbExperiments)
    /\ fetching' = FALSE
    /\ renderScheduled' = TRUE
    /\ UNCHANGED <<today, dbExperiments, statusRequests,
                   statusLatest, deleteRequests, deleteLatest, activeTab,
                   activeExperiments, completedExperiments>>

\* the experiments query fails: the data stays as it was
ExperimentsFetchFails ==
    /\ fetching
    /\ fetching' = FALSE
    /\ renderScheduled' = TRUE
    /\ UNCHANGED <<today, dbExperiments, experiments,
                   statusRequests, statusLatest, deleteRequests, deleteLatest,
                   activeTab, activeExperiments, completedExperiments>>

SetActiveTab(tab) ==
    /\ ~renderScheduled
    /\ tab # activeTab
    /\ activeTab' = tab
    /\ UNCHANGED <<today, dbExperiments, experiments, fetching,
                   statusRequests, statusLatest, deleteRequests, deleteLatest,
                   activeExperiments, completedExperiments, renderScheduled>>

\* updateStatusMutation.mutate from a button of a displayed experiment
MutateStatus(exp, status, by) ==
    /\ statusRequests' = statusRequests \cup {StatusRequest(exp, status, by)}
    /\ statusLatest' = StatusRequest(exp, status, by)
    /\ renderScheduled' = TRUE
    /\ UNCHANGED <<today, dbExperiments, experiments, fetching,
                   deleteRequests, deleteLatest, activeTab,
                   activeExperiments, completedExperiments>>

CompleteOffered_Always(exp) == exp.status \in Statuses

\* the Complete button is rendered for an experiment shown with this status
CompleteOffered(exp) == exp.status = "ACTIVE"

\* the Reactivate button is rendered for an experiment shown with this status
ReactivateOffered(exp) == exp.status = "COMPLETED"

\* the Complete button: handleCompleteExperiment(experiment.id)
CompleteClicked(i) ==
    /\ ~renderScheduled
    /\ i \in 1..Len(ExperimentsToDisplay)
    /\ CompleteOffered(ExperimentsToDisplay[i])
    /\ statusLatest = NoRequest
    /\ MutateStatus(ExperimentsToDisplay[i], "COMPLETED", "Complete")

\* the Reactivate button: handleReactivateExperiment(experiment.id)
ReactivateClicked(i) ==
    /\ ~renderScheduled
    /\ i \in 1..Len(ExperimentsToDisplay)
    /\ ReactivateOffered(ExperimentsToDisplay[i])
    /\ statusLatest = NoRequest
    /\ MutateStatus(ExperimentsToDisplay[i], "ACTIVE", "Reactivate")

\* handleDeleteExperiment: deleteMutation.mutate(id) when confirm() is true
HandleDeleteExperiment(exp, confirmed) ==
    IF confirmed
    THEN /\ deleteRequests' = deleteRequests \cup
                {[id |-> exp.id, confirmed |-> confirmed]}
         /\ deleteLatest' = [id |-> exp.id, confirmed |-> confirmed]
         /\ renderScheduled' = TRUE
    ELSE UNCHANGED <<deleteRequests, deleteLatest, renderScheduled>>

\* the delete button of a displayed experiment, and the answer to confirm()
DeleteClicked(i, confirmed) ==
    /\ ~renderScheduled
    /\ i \in 1..Len(ExperimentsToDisplay)
    /\ deleteLatest = NoRequest
    /\ HandleDeleteExperiment(ExperimentsToDisplay[i], confirmed)
    /\ UNCHANGED <<today, dbExperiments, experiments, fetching,
                   statusRequests, statusLatest, activeTab,
                   activeExperiments, completedExperiments>>

\* the mutation of request r has settled
StatusSettled(r) ==
    /\ statusRequests' = statusRequests \ {r}
    /\ statusLatest' = IF statusLatest = r THEN NoRequest ELSE statusLatest
    /\ renderScheduled' = TRUE

\* updateExperimentStatus(id, status) succeeds; onSuccess invalidates the query
StatusUpdateSucceeds(r) ==
    /\ r \in statusRequests
    /\ dbExperiments' =
        IF r.id \in DOMAIN dbExperiments
        THEN [dbExperiments EXCEPT ![r.id].status = r.status]
        ELSE dbExperiments
    /\ fetching' = TRUE
    /\ StatusSettled(r)
    /\ UNCHANGED <<today, experiments, deleteRequests,
                   deleteLatest, activeTab, activeExperiments,
                   completedExperiments>>

StatusUpdateFails(r) ==
    /\ r \in statusRequests
    /\ StatusSettled(r)
    /\ UNCHANGED <<today, dbExperiments, experiments, fetching,
                   deleteRequests, deleteLatest, activeTab, activeExperiments,
                   completedExperiments>>

DeleteSettled(r) ==
    /\ deleteRequests' = deleteRequests \ {r}
    /\ deleteLatest' = IF deleteLatest = r THEN NoRequest ELSE deleteLatest
    /\ renderScheduled' = TRUE

\* deleteExperiment(id) succeeds; onSuccess invalidates the query
DeleteSucceeds(r) ==
    /\ r \in deleteRequests
    /\ dbExperiments' =
        [e \in DOMAIN dbExperiments \ {r.id} |-> dbExperiments[e]]
    /\ fetching' = TRUE
    /\ DeleteSettled(r)
    /\ UNCHANGED <<today, experiments, statusRequests,
                   statusLatest, activeTab, activeExperiments,
                   completedExperiments>>

DeleteFails(r) ==
    /\ r \in deleteRequests
    /\ DeleteSettled(r)
    /\ UNCHANGED <<today, dbExperiments, experiments, fetching,
                   statusRequests, statusLatest, activeTab, activeExperiments,
                   completedExperiments>>

\* the page is mounted on a day over a table: no data yet, the query fetching
LabMounted(day, db) ==
    /\ today = day
    /\ dbExperiments = db
    /\ experiments = <<>>
    /\ fetching = TRUE
    /\ statusRequests = {}
    /\ statusLatest = NoRequest
    /\ deleteRequests = {}
    /\ deleteLatest = NoRequest
    /\ activeTab = "active"
    /\ activeExperiments = <<>>
    /\ completedExperiments = <<>>
    /\ renderScheduled = FALSE

\* a user without experiments
LabInit == LabMounted(1, <<>>)

\* a user with experiments, on any day
LabInitExperiments ==
    \E day \in Dates,
       db \in [ExperimentIds -> [status : Statuses, end_date : Dates]] :
        LabMounted(day, db)

\* nothing has happened yet
HistoryInit == reactivated = {} /\ autoIssued = 0

\* every request the page can have in flight
ShownExperiments == [id : ExperimentIds, status : Statuses, end_date : Dates]

AllStatusRequests ==
    {StatusRequest(exp, status, by) :
        exp \in ShownExperiments, status \in Statuses,
        by \in {"auto", "Complete", "Reactivate"}}

AllDeleteRequests == [id : ExperimentIds, confirmed : BOOLEAN]

----------------------------------------------------------------------------
(* Lab page: View Results and the ExperimentResultsDialog.  Averages are     *)
(* kept in hundredths; toFixed(1) rounds them to tenths.                     *)
NoExperiment == 0
NoResults    == [experiment |-> NoExperiment]
NoView       == [rendered |-> FALSE]

\* the averages an analysis can report: none, 0, 0.04, 3.4 and 7.65
Averages == {NullValue, Some(0), Some(4), Some(340), Some(765)}

\* the ExperimentResults of an experiment; without days with data there is
\* no average
ResultsOf(e) ==
    {[experiment |-> e, positiveConditionAverage |-> p,
      negativeConditionAverage |-> n, daysWithData |-> d] :
        p \in Averages, n \in Averages, d \in 1..MaxDays}
    \cup {[experiment |-> e, positiveConditionAverage |-> NullValue,
           negativeConditionAverage |-> NullValue, daysWithData |-> 0]}

Abs(v) == IF v < 0 THEN 0 - v ELSE v

\* v.toFixed(1) for v >= 0 in hundredths: the number of tenths
ToFixed1(v) == (v + 5) \div 10

\* an average tested by truthiness: 0 is rendered as missing
AverageText_Truthy(average) ==
    IF average # NullValue /\ average # Some(0)
    THEN [kind |-> "number", tenths |-> ToFixed1(average[1])]
    ELSE [kind |-> "N/A"]

\* average !== null ? average.toFixed(1) : 'N/A'
AverageText(average) ==
    IF average # NullValue
    THEN [kind |-> "number", tenths |-> ToFixed1(average[1])]
    ELSE [kind |-> "N/A"]

\* positiveConditionAverage - negativeConditionAverage, or null
Difference(positive, negative) ==
    IF positive # NullValue /\ negative # NullValue
    THEN Some(positive[1] - negative[1])
    ELSE NullValue

GetImpactStrength(diff) ==
    IF diff = NullValue THEN "Insufficient Data"
    ELSE IF Abs(diff[1]) >= 200 THEN "Strong"
    ELSE IF Abs(diff[1]) >= 100 THEN "Moderate"
    ELSE IF Abs(diff[1]) >= 50 THEN "Weak"
    ELSE "Minimal"

GetImpactDirection(diff) ==
    IF diff = NullValue THEN ""
    ELSE IF diff[1] > 0 THEN "Positive"
    ELSE IF diff[1] < 0 THEN "Negative"
    ELSE "No"

\* the 'Result:' sentence under the hypothesis
Verdict(diff) ==
    IF diff[1] > 0 THEN "supported"
    ELSE IF diff[1] < 0 THEN "contradicted"
    ELSE "no clear relationship"

\* what ExperimentResultsDialog renders for these props
ExperimentResultsDialog(isOpen, results) ==
    IF results = NoResults \/ ~isOpen THEN NoView
    ELSE IF results.daysWithData > 0
    THEN LET difference == Difference(results.positiveConditionAverage,
                                      results.negativeConditionAverage)
         IN  [rendered |-> TRUE, experiment |-> results.experiment,
              panel |-> "results",
              positiveAverage |-> AverageText(results.positiveConditionAverage),
              negativeAverage |-> AverageText(results.negativeConditionAverage),
              impactSummary |->
                IF difference # NullValue
                THEN [shown |-> TRUE,
                      strength |-> GetImpactStrength(difference),
                      direction |-> GetImpactDirection(difference),
                      pointDifference |-> ToFixed1(Abs(difference[1]))]
                ELSE [shown |-> FALSE],
              verdict |->
                IF difference # NullValue THEN Verdict(difference) ELSE "none"]
    ELSE [rendered |-> TRUE, experiment |-> results.experiment,
          panel |-> "Insufficient Data"]

\* a render of the dialog after the page state changed
RenderResults ==
    resultsView' = ExperimentResultsDialog(showResultsDialog', selectedResults')

\* the View Results button of a COMPLETED experiment: handleViewResults up to
\* its await
ViewResultsClicked(e) ==
    /\ ~showResultsDialog
    /\ analyzingId # e
    /\ analyzingId' = e
    /\ analyses' = analyses \cup {e}
    /\ lastRequested' = e
    /\ latestResolved' = FALSE
    /\ UNCHANGED <<selectedResults, showResultsDialog>>
    /\ RenderResults

\* setSelectedResults(results); setShowResultsDialog(true); finally
\* setAnalyzingId(null)
Resolved(e, results) ==
    /\ selectedResults' = results
    /\ showResultsDialog' = TRUE
    /\ analyzingId' = NoExperiment

\* analyzeExperimentResults(experiment) resolves: handleViewResults after its
\* await
AnalysisResolves(e, results) ==
    /\ e \in analyses
    /\ analyses' = analyses \ {e}
    /\ Resolved(e, results)
    /\ latestResolved' = (latestResolved \/ e = lastRequested)
    /\ UNCHANGED lastRequested
    /\ RenderResults

\* analyzeExperimentResults rejects: alert, finally setAnalyzingId(null)
AnalysisFails(e) ==
    /\ e \in analyses
    /\ analyses' = analyses \ {e}
    /\ analyzingId' = NoExperiment
    /\ UNCHANGED <<selectedResults, showResultsDialog, lastRequested,
                   latestResolved>>
    /\ RenderResults

\* onClose of the dialog
CloseResultsDialog ==
    /\ showResultsDialog
    /\ showResultsDialog' = FALSE
    /\ UNCHANGED <<analyses, analyzingId, selectedResults, lastRequested,
                   latestResolved>>
    /\ RenderResults

ResultsInit ==
    /\ analyses = {}
    /\ analyzingId = NoExperiment
    /\ selectedResults = NoResults
    /\ showResultsDialog = FALSE
    /\ resultsView = NoView
    /\ lastRequested = NoExperiment
    /\ latestResolved = FALSE

----------------------------------------------------------------------------
(* Data page: what the chart draws.  Axis values are in hundredths; the     *)
(* values of a record are whole numbers, except normalizedComparisonValue.  *)
\* Math.round(a / b) for a >= 0 and b > 0
Round(a, b) == (2 * a + b) \div (2 * b)

\* axisConfig.rightTickFormatter applied to an axis value; Scenario A's
\* formatter holds scaledMax, the upper end of its rightDomain
FormatRightTick(config, value) ==
    IF config.rightTickFormatter = "scale"
    THEN LET scaleValue == Round(value * 10, config.rightDomain[2])
         IN  IF scaleValue >= 1 /\ scaleValue <= 10 THEN scaleValue ELSE ""
    ELSE IF config.rightTickFormatter = "yesNo"
    THEN IF Abs(value - 750) < 50 THEN "Yes"
         ELSE IF Abs(value - 250) < 50 THEN "No" ELSE ""
    ELSE value

\* the primary Line: yAxisId "left", dataKey "primaryValue"
PrimaryLine(dataPoint) ==
    [axis |-> "left",
     value |-> IF dataPoint.primaryValue = NullValue THEN NullValue
               ELSE Some(dataPoint.primaryValue[1] * 100)]

\* the comparison Line: normalizedComparisonValue on the left axis when
\* normalizeComparison, otherwise comparisonValue on the right axis
ComparisonLine(config, dataPoint) ==
    IF config.normalizeComparison
    THEN [axis |-> "left", value |-> dataPoint.normalizedComparisonValue]
    ELSE [axis |-> "right",
          value |-> IF dataPoint.comparisonValue = NullValue THEN NullValue
                    ELSE Some(dataPoint.comparisonValue[1] * 100)]

\* the domain of the YAxis with this yAxisId
AxisDomain(config, axis) ==
    IF axis = "left" THEN config.leftDomain ELSE config.rightDomain

\* where a YAxis of a domain puts a value: the share of the axis height
\* below it, as <<numerator, denominator>>
Position(value, domain) == <<value - domain[1], domain[2] - domain[1]>>

----------------------------------------------------------------------------
(* The chart data queries of the Data page and of the Create Finding        *)
(* preview, and the query cache they share.                                  *)
MetricIds  == {"m1", "m2"}
NoComparison == "none"
DateRanges == {"7", "30"}
NoServed   == [page |-> "none"]

\* getDualMetricChartData(userId, primaryMetricId, comparisonMetricId, days)
ChartRequest(u, primary, comparison, range) ==
    [user |-> u, primaryMetricId |-> primary,
     comparisonMetricId |-> comparison, dateRange |-> range]

\* ['dualMetricChartData', user?.id, primaryMetricId, comparisonMetricId,
\*  selectedDateRange]
DataPageQueryKey(u, primary, comparison, range) ==
    <<"dualMetricChartData", u, primary, comparison, range>>

\* ['chartData', context]
PreviewQueryKey(u, primary, comparison, range) ==
    <<"chartData",
      [type |-> "chart", primaryMetricId |-> primary,
       comparisonMetricId |-> comparison, dateRange |-> range]>>

Cached(key) == {entry \in queryCache : entry.queryKey = key}

\* useQuery with this key: the cached data when there is an entry, otherwise
\* the data the query function fetches for the request, which is cached
UseQuery(page, key, request) ==
    /\ IF Cached(key) # {}
       THEN /\ chartServed' = [page |-> page, request |-> request,
                               madeFor |-> (CHOOSE entry \in Cached(key) : TRUE).request]
            /\ UNCHANGED queryCache
       ELSE /\ Cardinality(queryCache) < MaxCached
            /\ queryCache' = queryCache \cup {[queryKey |-> key, request |-> request]}
            /\ chartServed' = [page |-> page, request |-> request, madeFor |-> request]
    /\ UNCHANGED user

\* the refetch of a cached entry that was made for another request resolves
\* for the page that shows it (a refetch for the same request changes nothing)
Refetched(page, key, request) ==
    /\ Cached(key) # {}
    /\ chartServed # NoServed
    /\ chartServed.page = page /\ chartServed.request = request
    /\ chartServed.madeFor # request
    /\ queryCache' = (queryCache \ Cached(key))
                        \cup {[queryKey |-> key, request |-> request]}
    /\ chartServed' = [page |-> page, request |-> request, madeFor |-> request]
    /\ UNCHANGED user

\* the Data page renders with a selection and shouldFetchChart
DataPageQuery(primary, comparison, range) ==
    UseQuery("data", DataPageQueryKey(user, primary, comparison, range),
             ChartRequest(user, primary, comparison, range))

\* the Create Finding page renders with a chart context in its URL
PreviewQuery(primary, comparison, range) ==
    UseQuery("preview", PreviewQueryKey(user, primary, comparison, range),
             ChartRequest(user, primary, comparison, range))

PreviewRefetched(primary, comparison, range) ==
    Refetched("preview", PreviewQueryKey(user, primary, comparison, range),
              ChartRequest(user, primary, comparison, range))

\* another user signs in in the same browser tab: no page shows data yet
UserChanged(u) ==
    /\ u # user
    /\ user' = u
    /\ chartServed' = NoServed
    /\ UNCHANGED queryCache

CacheInit ==
    /\ user = 1
    /\ queryCache = {}
    /\ chartServed = NoServed

----------------------------------------------------------------------------
ServerInit ==
    /\ community_findings = <<>>
    /\ finding_votes = EmptyBag
    /\ finding_reports = <<>>
    /\ findingResult = NoResult
    /\ pc = [c \in Calls |-> "idle"]
    /\ voteArgs = [c \in Calls |-> NoArgs]
    /\ existingVote = [c \in Calls |-> NoRow]
    /\ voteResult = "none"
    /\ reportResult = "none"
    /\ ranAlone = [c \in Calls |-> FALSE]

----------------------------------------------------------------------------
(* The callers of castVoteAction and reportFindingAction: the arguments a   *)
(* call is made with and the user of the session it is made in              *)
NoCaller == [action |-> "none", seq |-> 0]

Caller(action, session, userId, findingId) ==
    [action |-> action, session |-> session, userId |-> userId,
     findingId |-> findingId, seq |-> lastCall.seq + 1]

CallInit == lastCall = NoCaller

----------------------------------------------------------------------------
(* Lab page: the duration and the progress of an experiment card.  Instants *)
(* are milliseconds since the epoch in UTC, dates are day numbers, and the  *)
(* browser's time zone is its offset from UTC in milliseconds.              *)
MsPerDay == 86400000
\* UTC-5, UTC and UTC+2
ZoneOffsets == {-18000000, 0, 7200000}
CardDays == 1..MaxDay
NoCard == [shown |-> FALSE]

\* Math.ceil(a / b) for b > 0
Ceil(a, b) == -((-a) \div b)

\* new Date('YYYY-MM-DD'): midnight of the day in UTC
ParseDate(day) == day * MsPerDay

\* the local calendar day an instant falls on
LocalDay(t, zone) == (t + zone) \div MsPerDay

\* date.setHours(...): the same local day, at msOfDay after local midnight
SetHours(t, zone, msOfDay) == LocalDay(t, zone) * MsPerDay - zone + msOfDay

\* new Date() on the local day `day`, at noon
Noon(day, zone) == day * MsPerDay - zone + MsPerDay \div 2

\* getExperimentDuration: the number of days it prints
GetExperimentDuration(startDate, endDate) ==
    Ceil(ParseDate(endDate) - ParseDate(startDate), MsPerDay) + 1

\* getExperimentProgress; the percentage is elapsed / totalDuration * 100,
\* kept as the pair it is the quotient of, after the clamping to [0, 100]
GetExperimentProgress(startDate, endDate, now, zone) ==
    LET todayStart == SetHours(now, zone, 0)
        start == SetHours(ParseDate(startDate), zone, 0)
        end == SetHours(ParseDate(endDate), zone, MsPerDay - 1)
        totalDuration == end - start
        elapsed == todayStart - start
        totalDays == Ceil(totalDuration, MsPerDay) + 1
    IN  IF elapsed < 0
        THEN [percentage |-> <<0, 1>>, daysElapsed |-> 0,
              totalDays |-> totalDays, status |-> "upcoming"]
        ELSE IF todayStart > end
        THEN [percentage |-> <<1, 1>>, daysElapsed |-> totalDays,
              totalDays |-> totalDays, status |-> "completed"]
        ELSE [percentage |->
                <<IF elapsed > totalDuration THEN totalDuration ELSE elapsed,
                  totalDuration>>,
              daysElapsed |-> Max2(1, Ceil(elapsed, MsPerDay)),
              totalDays |-> totalDays, status |-> "active"]

\* an experiment card is rendered on local day `day` in a browser of `zone`
RenderCard(startDate, endDate, day, zone) ==
    /\ startDate <= endDate
    /\ labCard' =
        [shown |-> TRUE, start_date |-> startDate, end_date |-> endDate,
         today |-> day, zone |-> zone,
         duration |-> GetExperimentDuration(startDate, endDate),
         progress |-> GetExperimentProgress(startDate, endDate,
                                            Noon(day, zone), zone)]

CardInit == labCard = NoCard

Init ==
    /\ ServerInit /\ ItemsInit /\ DataInit /\ LabInit /\ ResultsInit
    /\ CacheInit /\ CallInit /\ CardInit /\ HistoryInit

CreateFinding ==
    \E session \in {NoUser, 1}, title \in {<<>>, <<" ", "T", " ">>},
       insertFails \in BOOLEAN :
        CreateFindingAction(session, title, <<"C">>, TRUE, "", "", insertFails)

ShareFinding ==
    \E session \in {NoUser, 2}, insertFails \in BOOLEAN :
        ShareFindingAction(session, "chart", <<"T">>, <<"C">>, FALSE, "",
                           insertFails)

ReportFinding ==
    \E session \in Users \cup {NoUser}, userId \in {EmptyId, 1},
       findingId \in {EmptyId, 1}, insertFails \in BOOLEAN :
        ReportFindingAction(session, userId, findingId, "spam", insertFails)

CastVote(c, findingIds) ==
    \/ \E session \in Users \cup {NoUser}, userId \in Users \cup {EmptyId},
          findingId \in findingIds \cup {EmptyId}, voteType \in VoteTypes :
            CastVoteStart(c, session, userId, findingId, voteType)
    \/ \E fails \in BOOLEAN : CastVoteSelect(c, fails)
    \/ \E fails \in BOOLEAN : CastVoteWrite(c, fails)
    \/ \E fails \in BOOLEAN : CastVoteInvoke(c, fails)

\* the Create Finding form submitted with any of its fields, and
\* shareFindingAction called with either context type
CreateFindingForm ==
    \E session \in {NoUser, 1},
       title \in {Missing, <<" ">>, <<" ", "T", " ">>},
       content \in {Missing, <<" ", " ">>, <<"C", " ">>},
       chartConfigStr \in {"", "{}", "{"}, experimentId \in {"", "e1"},
       insertFails \in BOOLEAN :
        CreateFindingAction(session, title, content, FALSE, chartConfigStr,
                            experimentId, insertFails)

ShareFindingCall ==
    \E session \in {NoUser, 2}, type \in {"chart", "experiment"},
       experimentId \in {"", "e1"}, insertFails \in BOOLEAN :
        ShareFindingAction(session, type, <<" ", "T">>, <<"C">>, TRUE,
                           experimentId, insertFails)

FindingNext ==
    /\ CreateFindingForm \/ ShareFindingCall
    /\ UNCHANGED <<itemVars, dataVars, labVars, resultsVars, cacheVars, callVars, cardVars,
                   historyVars>>

FindingSpec == Init /\ [][FindingNext]_vars

\* the experiment cards of the Lab page
CardNext ==
    /\ \E startDate \in CardDays, endDate \in CardDays, day \in CardDays,
          zone \in ZoneOffsets :
            RenderCard(startDate, endDate, day, zone)
    /\ UNCHANGED <<serverVars, itemVars, dataVars, labVars, resultsVars,
                   cacheVars, callVars, historyVars>>

CardSpec == Init /\ [][CardNext]_vars

\* castVoteAction is called: its checks run up to auth.getUser
CastVoteCalled(c) ==
    \E session \in Users \cup {NoUser}, userId \in Users \cup {EmptyId},
       findingId \in {EmptyId, 1}, voteType \in VoteTypes :
        /\ lastCall.seq < MaxCalls
        /\ CastVoteStart(c, session, userId, findingId, voteType)
        /\ lastCall' = Caller("vote", session, userId, findingId)

\* the awaited steps of a castVoteAction call in flight
CastVoteProceeds(c) ==
    /\ \/ \E fails \in BOOLEAN : CastVoteSelect(c, fails)
       \/ \E fails \in BOOLEAN : CastVoteWrite(c, fails)
       \/ \E fails \in BOOLEAN : CastVoteInvoke(c, fails)
    /\ UNCHANGED lastCall

\* reportFindingAction is called
ReportFindingCalled ==
    \E session \in Users \cup {NoUser}, userId \in Users \cup {EmptyId},
       findingId \in {EmptyId, 1}, insertFails \in BOOLEAN :
        /\ lastCall.seq < MaxCalls
        /\ ReportFindingAction(session, userId, findingId, "", insertFails)
        /\ lastCall' = Caller("report", session, userId, findingId)

\* votes and reports by any caller, for any user
CallerNext ==
    /\ CastVoteCalled(1) \/ CastVoteProceeds(1) \/ ReportFindingCalled
    /\ UNCHANGED <<itemVars, dataVars, labVars, resultsVars, cacheVars,
                   cardVars, historyVars>>

CallerSpec == Init /\ [][CallerNext]_vars

\* the four server actions, one vote in flight at a time
Next ==
    /\ CreateFinding \/ ShareFinding \/ ReportFinding \/ CastVote(1, {1})
    /\ UNCHANGED <<itemVars, dataVars, labVars, resultsVars, cacheVars, callVars, cardVars,
                   historyVars>>

Spec == Init /\ [][Next]_vars

\* votes cast concurrently
VoteNext ==
    /\ \E c \in Calls : CastVote(c, {1, 2})
    /\ UNCHANGED <<itemVars, dataVars, labVars, resultsVars, cacheVars, callVars, cardVars,
                   historyVars>>

VoteSpec == Init /\ [][VoteNext]_vars

\* the trackable items and the metric lists of the Lab and Data pages
ItemsNext ==
    /\ \/ \E items \in ItemLists : TrackableItemsFetched(items)
       \/ TrackableItemsReset
    /\ UNCHANGED <<serverVars, dataVars, labVars, resultsVars, cacheVars, callVars, cardVars,
                   historyVars>>

ItemsSpec == Init /\ [][ItemsNext]_vars

\* the Data page
DataNext ==
    /\ \/ \E type \in MetricTypes : SetPrimaryMetric(type)
       \/ \E type \in MetricTypes \cup {NoMetric} : SetComparisonMetric(type)
       \/ HandleUpdateChart
       \/ \E series \in PendingSeries : ChartDataFetched(series)
    /\ UNCHANGED <<serverVars, itemVars, labVars, resultsVars, cacheVars, callVars, cardVars,
                   historyVars>>

DataSpec == Init /\ [][DataNext]_vars

\* what the user does on the Lab page
LabUser ==
    \/ \E tab \in {"active", "completed"} : SetActiveTab(tab)
    \/ \E i \in ExperimentIds : CompleteClicked(i)
    \/ \E i \in ExperimentIds : ReactivateClicked(i)
    \/ \E i \in ExperimentIds, confirmed \in BOOLEAN : DeleteClicked(i, confirmed)

\* the Lab page, its requests succeeding or failing
LabNext ==
    /\ \/ Render
       \/ LabUser
       \/ ExperimentsFetched
       \/ ExperimentsFetchFails
       \/ \E r \in AllStatusRequests : StatusUpdateSucceeds(r)
       \/ \E r \in AllStatusRequests : StatusUpdateFails(r)
       \/ \E r \in AllDeleteRequests : DeleteSucceeds(r)
       \/ \E r \in AllDeleteRequests : DeleteFails(r)
    /\ UNCHANGED <<serverVars, itemVars, dataVars, resultsVars, cacheVars, callVars, cardVars,
                   historyVars>>

LabPageInit ==
    /\ ServerInit /\ ItemsInit /\ DataInit /\ LabInitExperiments
    /\ ResultsInit /\ CacheInit /\ CallInit /\ CardInit /\ HistoryInit

LabSpec == LabPageInit /\ [][LabNext]_vars

\* the Lab page where the status updates, the deletions and the refetches
\* succeed
LabLiveNext ==
    /\ \/ Render
       \/ LabUser
       \/ ExperimentsFetched
       \/ \E r \in AllStatusRequests : StatusUpdateSucceeds(r)
       \/ \E r \in AllDeleteRequests : DeleteSucceeds(r)
    /\ UNCHANGED <<serverVars, itemVars, dataVars, resultsVars, cacheVars, callVars, cardVars,
                   historyVars>>

\* a scheduled render runs, and a request in flight gets its answer
LabFairness ==
    /\ WF_labVars(Render)
    /\ WF_labVars(ExperimentsFetched)
    /\ \A r \in AllStatusRequests : WF_labVars(StatusUpdateSucceeds(r))

LabLiveSpec == LabPageInit /\ [][LabLiveNext]_vars /\ LabFairness

\* the Lab page with its history: which experiments the user reactivated,
\* and how many auto-update calls the renders made for the data they have
RenderCounted ==
    /\ autoIssued + Cardinality(AutoRequests(experiments, today)) <= MaxIssued
    /\ Render
    /\ autoIssued' = autoIssued + Cardinality(AutoRequests(experiments, today))
    /\ UNCHANGED reactivated

FetchedCounted ==
    /\ ExperimentsFetched
    /\ autoIssued' = 0
    /\ UNCHANGED reactivated

TabSet ==
    /\ \E tab \in {"active", "completed"} : SetActiveTab(tab)
    /\ UNCHANGED historyVars

UserCompletes(i) ==
    /\ CompleteClicked(i)
    /\ reactivated' = reactivated \ {ExperimentsToDisplay[i].id}
    /\ UNCHANGED autoIssued

UserReactivates(i) ==
    /\ ReactivateClicked(i)
    /\ UNCHANGED historyVars

UserDeletes(i, confirmed) ==
    /\ DeleteClicked(i, confirmed)
    /\ reactivated' = IF confirmed THEN reactivated \ {ExperimentsToDisplay[i].id}
                      ELSE reactivated
    /\ UNCHANGED autoIssued

\* a status update succeeds: a reactivation by the user is recorded
StatusUpdated(r) ==
    /\ StatusUpdateSucceeds(r)
    /\ reactivated' = IF r.by = "Reactivate" THEN reactivated \cup {r.id}
                      ELSE IF r.by = "Complete" THEN reactivated \ {r.id}
                      ELSE reactivated
    /\ UNCHANGED autoIssued

StatusNotUpdated(r) ==
    /\ StatusUpdateFails(r)
    /\ UNCHANGED historyVars

Deleted(r) ==
    /\ DeleteSucceeds(r)
    /\ reactivated' = reactivated \ {r.id}
    /\ UNCHANGED autoIssued

LabHistoryNext ==
    /\ \/ RenderCounted
       \/ FetchedCounted
       \/ TabSet
       \/ \E i \in ExperimentIds : UserCompletes(i)
       \/ \E i \in ExperimentIds : UserReactivates(i)
       \/ \E i \in ExperimentIds, confirmed \in BOOLEAN : UserDeletes(i, confirmed)
       \/ \E r \in AllStatusRequests : StatusUpdated(r)
       \/ \E r \in AllStatusRequests : StatusNotUpdated(r)
       \/ \E r \in AllDeleteRequests : Deleted(r)
    /\ UNCHANGED <<serverVars, itemVars, dataVars, resultsVars, cacheVars,
                   callVars, cardVars>>

LabHistorySpec == LabPageInit /\ [][LabHistoryNext]_vars

\* the Lab page's View Results buttons and results dialog
ResultsNext ==
    /\ \/ \E e \in ExperimentIds : ViewResultsClicked(e)
       \/ \E e \in ExperimentIds : \E results \in ResultsOf(e) :
            AnalysisResolves(e, results)
       \/ \E e \in ExperimentIds : AnalysisFails(e)
       \/ CloseResultsDialog
    /\ UNCHANGED <<serverVars, itemVars, dataVars, labVars, cacheVars, callVars, cardVars,
                   historyVars>>

ResultsSpec == Init /\ [][ResultsNext]_vars

\* the chart data queries
CacheNext ==
    /\ \/ \E u \in Users : UserChanged(u)
       \/ \E primary \in MetricIds, comparison \in MetricIds \cup {NoComparison},
             range \in DateRanges :
            \/ DataPageQuery(primary, comparison, range)
            \/ PreviewQuery(primary, comparison, range)
            \/ PreviewRefetched(primary, comparison, range)
    /\ UNCHANGED <<serverVars, itemVars, dataVars, labVars, resultsVars,
                   callVars, cardVars, historyVars>>

CacheSpec == Init /\ [][CacheNext]_vars

----------------------------------------------------------------------------
(* Votes: at most one row per pair, toggle-off, update in place *)

PairOf(c) == <<voteArgs[c].userId, voteArgs[c].findingId>>

\* the write of call c succeeds in this step
WriteSucceeds(c) == pc[c] = "write" /\ pc'[c] = "invoke"

\* call c has overlapped no other call, and the pair's only row has type t
AloneOnRow(c, t) ==
    /\ ranAlone[c]
    /\ CountVotes(finding_votes, PairOf(c)[1], PairOf(c)[2]) = 1
    /\ CopiesIn(VoteRow(PairOf(c)[1], PairOf(c)[2], t), finding_votes) = 1

\* C1: at every point of every execution of castVoteAction calls, concurrent
\* calls of one user for one finding included, finding_votes holds at most
\* one row for every (user, finding) pair.
C1_AtMostOneVotePerPair ==
    \A u \in Users, f \in {1, 2} : CountVotes(finding_votes, u, f) <= 1

\* C2: toggle-off. When the pair's row has type t and castVoteAction(user,
\* finding, t) runs alone and its write succeeds, the pair has no row
\* afterwards; and a vote that runs alone from the no-vote state leaves exactly
\* one row of its type, so that two successive same-type votes from the no-vote
\* state return to the no-vote state.
C2_ToggleOff ==
    [][\A c \in Calls :
        /\ (WriteSucceeds(c) /\ AloneOnRow(c, voteArgs[c].voteType))
            => CountVotes(finding_votes', PairOf(c)[1], PairOf(c)[2]) = 0
        /\ (/\ WriteSucceeds(c) /\ ranAlone[c]
            /\ CountVotes(finding_votes, PairOf(c)[1], PairOf(c)[2]) = 0)
            => AloneOnRow(c, voteArgs[c].voteType)'
      ]_vars

\* a call that ran alone has just deleted the row of its own type
C2_Witness ==
    \E c \in Calls :
        /\ pc[c] = "invoke" /\ ranAlone[c]
        /\ existingVote[c] # NoRow
        /\ existingVote[c].vote_type = voteArgs[c].voteType
        /\ CountVotes(finding_votes, PairOf(c)[1], PairOf(c)[2]) = 0

OtherType(t) == IF t = "upvote" THEN "downvote" ELSE "upvote"

\* C3: when the pair's row has type t and castVoteAction(user, finding, t')
\* with t' # t runs alone and its write succeeds, that row's vote_type becomes
\* t' and no row is inserted or deleted: the pair still has one row and the
\* table has as many rows as before.
C3_UpdateInPlace ==
    [][\A c \in Calls :
        (WriteSucceeds(c) /\ AloneOnRow(c, OtherType(voteArgs[c].voteType)))
            => /\ AloneOnRow(c, voteArgs[c].voteType)'
               /\ BagCardinality(finding_votes') = BagCardinality(finding_votes)
               /\ \A r \in BagToSet(finding_votes) :
                    ~Matches(r, PairOf(c)[1], PairOf(c)[2])
                        => CopiesIn(r, finding_votes') = CopiesIn(r, finding_votes)
      ]_vars

\* a call that ran alone has just changed the type of the pair's row
C3_Witness ==
    \E c \in Calls :
        /\ pc[c] = "invoke" /\ ranAlone[c]
        /\ existingVote[c] # NoRow
        /\ existingVote[c].vote_type = OtherType(voteArgs[c].voteType)
        /\ CountVotes(finding_votes, PairOf(c)[1], PairOf(c)[2]) = 1
        /\ BagCardinality(finding_votes) = 2

----------------------------------------------------------------------------
(* Findings: what is written to community_findings after the insert *)

\* the columns createFindingAction and shareFindingAction set
Content(row) == [row EXCEPT !.upvotes = 0, !.downvotes = 0]

\* C7 as stated: after a finding row is inserted no server action updates or
\* deletes a community_findings row; the only write to the table is the insert.
C7_NoWriteAfterInsert ==
    [][/\ Len(community_findings') >= Len(community_findings)
       /\ \A i \in 1..Len(community_findings) :
            community_findings'[i] = community_findings[i]
      ]_vars

\* C7 amended: after a finding row is inserted no server action deletes it or
\* changes its author, title, content, share_data, chart_config or
\* experiment_id; only createFindingAction and shareFindingAction add rows, and
\* the one later change is to the upvotes / downvotes counters, which the
\* vote-processor call of castVoteAction recounts.
C7_ContentNeverRewritten ==
    [][/\ Len(community_findings') >= Len(community_findings)
       /\ \A i \in 1..Len(community_findings) :
            Content(community_findings'[i]) = Content(community_findings[i])
       /\ (Len(community_findings') > Len(community_findings))
            => UNCHANGED <<finding_votes, finding_reports, pc>>
      ]_vars

\* two findings exist and a vote on the first has been counted into it
C7_Witness ==
    /\ Len(community_findings) = 2
    /\ community_findings[1].upvotes = 1

----------------------------------------------------------------------------
(* Metric lists *)

OnlyTypes(list, category, types) ==
    \A i \in 1..Len(list) : list[i].category = category /\ list[i].type \in types

\* C6: the metric lists offered for charts (Data page) and for experiments
\* (the lists the Lab page passes to the create and edit dialogs) hold only
\* NUMERIC or SCALE_1_10 items of category OUTPUT as outputs and only NUMERIC,
\* SCALE_1_10 or BOOLEAN items of category INPUT as inputs; a TEXT item is
\* never offered.
C6_OfferedMetricTypes ==
    /\ OnlyTypes(dataOutputMetrics, "OUTPUT", {"NUMERIC", "SCALE_1_10"})
    /\ OnlyTypes(labOutputMetrics, "OUTPUT", {"NUMERIC", "SCALE_1_10"})
    /\ OnlyTypes(dataInputMetrics, "INPUT", {"NUMERIC", "SCALE_1_10", "BOOLEAN"})
    /\ OnlyTypes(labInputMetrics, "INPUT", {"NUMERIC", "SCALE_1_10", "BOOLEAN"})

----------------------------------------------------------------------------
(* Axis synchronisation *)

\* the non-null values of a column of the fetched series
NonNull(column) ==
    {rawChartData[i][column][1] :
        i \in {j \in 1..Len(rawChartData) : rawChartData[j][column] # NullValue}}

\* [0, max(m * 1.1, 1)] in hundredths
HeadroomDomain(m) == <<0, IF m * 110 >= 100 THEN m * 110 ELSE 100>>

IsMaxOf(m, S) == m \in S /\ \A x \in S : x <= m

Configured == primaryMetric # NoMetric /\ Len(rawChartData) >= 1

\* C8 as stated: for every primary type, every comparison choice and every raw
\* series with at least one record, leftDomain is [1,10] for SCALE_1_10 and
\* otherwise [0, max(m * 1.1, 1)] with m the maximum non-null primaryValue.
C8_LeftDomain ==
    Configured =>
        /\ axisConfig # NoConfig
        /\ IF primaryMetric = "SCALE_1_10"
           THEN axisConfig.leftDomain = <<100, 1000>>
           ELSE \E m \in NonNull("primaryValue") :
                    /\ IsMaxOf(m, NonNull("primaryValue"))
                    /\ axisConfig.leftDomain = HeadroomDomain(m)

\* C8 amended: for every primary type, every comparison choice and every raw
\* series with at least one record, leftDomain is [1,10] for SCALE_1_10;
\* otherwise, when at least one primaryValue is non-null, it is
\* [0, max(m * 1.1, 1)] with m the maximum non-null primaryValue.
C8_LeftDomainObserved ==
    Configured =>
        /\ axisConfig # NoConfig
        /\ IF primaryMetric = "SCALE_1_10"
           THEN axisConfig.leftDomain = <<100, 1000>>
           ELSE NonNull("primaryValue") # {} =>
                \E m \in NonNull("primaryValue") :
                    /\ IsMaxOf(m, NonNull("primaryValue"))
                    /\ axisConfig.leftDomain = HeadroomDomain(m)

\* a NUMERIC primary series with a null and a maximum of 20: [0, 22]
C8_Witness ==
    /\ primaryMetric = "NUMERIC" /\ comparisonMetric = "BOOLEAN"
    /\ Len(rawChartData) = 2
    /\ rawChartData[1].primaryValue = NullValue
    /\ rawChartData[2].primaryValue = Some(20)
    /\ axisConfig # NoConfig
    /\ axisConfig.leftDomain = <<0, 2200>>

\* 7.5 for 1 (true), 2.5 for 0 (false), null for anything else
ExpectedNormalized(value) ==
    CASE value = Some(1) -> Some(750)
      [] value = Some(0) -> Some(250)
      [] OTHER -> NullValue

\* C9: with a SCALE_1_10 primary and a BOOLEAN comparison, rightTicks is
\* [2.5, 7.5], normalizeComparison is true and every point's
\* normalizedComparisonValue is 7.5 for comparisonValue 1, 2.5 for 0 and null
\* for any other or missing value; every other configuration computed has
\* normalizeComparison false.
C9_BooleanNormalization ==
    axisConfig # NoConfig =>
        IF primaryMetric = "SCALE_1_10" /\ comparisonMetric = "BOOLEAN"
        THEN /\ axisConfig.rightTicks = <<250, 750>>
             /\ axisConfig.normalizeComparison = TRUE
             /\ Len(chartData) = Len(rawChartData)
             /\ \A i \in 1..Len(chartData) :
                    chartData[i].normalizedComparisonValue =
                        ExpectedNormalized(rawChartData[i].comparisonValue)
        ELSE axisConfig.normalizeComparison = FALSE

\* a scale/boolean chart with a false day and a day without a boolean value
C9_Witness ==
    /\ primaryMetric = "SCALE_1_10" /\ comparisonMetric = "BOOLEAN"
    /\ axisConfig # NoConfig
    /\ Len(chartData) = 2
    /\ chartData[1].comparisonValue = Some(0)
    /\ chartData[1].normalizedComparisonValue = Some(250)
    /\ chartData[2].comparisonValue = NullValue
    /\ chartData[2].normalizedComparisonValue = NullValue

\* C10: when every observed value of a series is null or missing, the domain
\* computed for that series is [0,10], for every non-scale metric type:
\* leftDomain for the primary series, rightDomain for the comparison series.
C10_AllNullDomain ==
    axisConfig # NoConfig =>
        /\ (primaryMetric # "SCALE_1_10" /\ NonNull("primaryValue") = {})
            => axisConfig.leftDomain = <<0, 1000>>
        /\ (/\ comparisonMetric \notin {NoMetric, "SCALE_1_10"}
            /\ NonNull("comparisonValue") = {})
            => axisConfig.rightDomain = <<0, 1000>>

\* the pairs of types with a scenario of their own
SpecialPairs ==
    {<<"NUMERIC", "SCALE_1_10">>, <<"SCALE_1_10", "NUMERIC">>,
     <<"SCALE_1_10", "BOOLEAN">>}

\* C11: for every pair of a primary and a comparison type over NUMERIC,
\* SCALE_1_10, BOOLEAN and TEXT and every non-empty series a configuration is
\* produced, with both domains; every pair other than (NUMERIC, SCALE_1_10),
\* (SCALE_1_10, NUMERIC) and (SCALE_1_10, BOOLEAN) gets no tick formatter, no
\* ticks and normalizeComparison false.
C11_TotalOverTypePairs ==
    (/\ primaryMetric \in MetricTypes /\ comparisonMetric \in MetricTypes
     /\ Len(rawChartData) >= 1) =>
        /\ axisConfig # NoConfig
        /\ Len(axisConfig.leftDomain) = 2 /\ Len(axisConfig.rightDomain) = 2
        /\ Len(chartData) = Len(rawChartData)
        /\ <<primaryMetric, comparisonMetric>> \notin SpecialPairs =>
            /\ axisConfig.rightTickFormatter = "undefined"
            /\ axisConfig.rightTicks = <<>>
            /\ axisConfig.normalizeComparison = FALSE

\* a TEXT metric against a BOOLEAN one, over a series with values
C11_Witness ==
    /\ primaryMetric = "TEXT" /\ comparisonMetric = "BOOLEAN"
    /\ Len(rawChartData) = 2
    /\ rawChartData[1].comparisonValue = Some(1)
    /\ axisConfig # NoConfig
    /\ axisConfig.rightTicks = <<>>
    /\ axisConfig.normalizeComparison = FALSE

----------------------------------------------------------------------------
(* Correlation score *)

\* the indices of the fetched records with both values present, 0 included
BothPresent ==
    {i \in 1..Len(rawChartData) :
        /\ rawChartData[i].primaryValue # NullValue
        /\ rawChartData[i].comparisonValue # NullValue}

\* the k-th smallest element of a set of indices
RECURSIVE Nth(_, _)
Nth(S, k) ==
    LET least == CHOOSE x \in S : \A y \in S : x <= y
    IN  IF k = 1 THEN least ELSE Nth(S \ {least}, k - 1)

C14_NoScoreWithoutPairs ==
    (\/ Cardinality(BothPresent) < 2
     \/ comparisonMetric = NoMetric
     \/ Len(rawChartData) = 0) =>
        /\ correlationScore = NullValue
        /\ correlationCall = NoCall
        /\ ~correlationCard

\* two metrics charted over two days, only one of which has both values
C14_Witness ==
    /\ shouldFetchChart
    /\ primaryMetric = "NUMERIC" /\ comparisonMetric = "NUMERIC"
    /\ Len(rawChartData) = 2
    /\ Cardinality(BothPresent) = 1
    /\ rawChartData[2].comparisonValue = NullValue
    /\ correlationScore = NullValue
    /\ correlationCall = NoCall
    /\ ~correlationCard

AllEqual(xs) == \A i, j \in 1..Len(xs) : xs[i] = xs[j]

\* C15: for equal-length sequences of at least 2 points of which one has all
\* its values equal, the calculator returns null, not NaN or an infinity.
C15_ZeroVarianceIsNull ==
    (/\ correlationCall # NoCall
     /\ Len(correlationCall.xs) = Len(correlationCall.ys)
     /\ Len(correlationCall.xs) >= 2
     /\ (AllEqual(correlationCall.xs) \/ AllEqual(correlationCall.ys))) =>
        /\ correlationScore = NullValue
        /\ correlationScore \notin {Some("NaN"), Some("Infinity")}
        /\ ~correlationCard

\* the calculator called with a constant primary series and a varying
\* comparison series
C15_Witness ==
    /\ correlationCall # NoCall
    /\ correlationCall.xs = <<20, 20>>
    /\ correlationCall.ys = <<0, 2>>
    /\ correlationScore = NullValue

----------------------------------------------------------------------------
(* Lab page: the experiment lifecycle.                                       *)

\* C4: an experiment's status is always ACTIVE or COMPLETED; every status
\* request in flight asks to complete an experiment the page showed as ACTIVE
\* (Complete button or auto-completion) or to reactivate one it showed as
\* COMPLETED (Reactivate button), so none asks for the status the page
\* showed; every delete request in flight was confirmed by the user.
C4_LifecycleRequests ==
    /\ \A e \in DOMAIN dbExperiments : dbExperiments[e].status \in Statuses
    /\ \A i \in 1..Len(experiments) : experiments[i].status \in Statuses
    /\ \A r \in statusRequests :
        /\ r.status # r.shown.status
        /\ \/ /\ r.shown.status = "ACTIVE" /\ r.status = "COMPLETED"
              /\ r.by \in {"auto", "Complete"}
           \/ /\ r.shown.status = "COMPLETED" /\ r.status = "ACTIVE"
              /\ r.by = "Reactivate"
    /\ \A r \in deleteRequests : r.confirmed

\* a reactivation and a confirmed deletion are in flight together, after a
\* completion has reached the table
C4_Witness ==
    /\ \E r \in statusRequests : r.by = "Reactivate"
    /\ \E r \in deleteRequests : r.confirmed
    /\ \E i \in 1..Len(experiments) :
        /\ experiments[i].status = "ACTIVE"
        /\ experiments[i].id \in DOMAIN dbExperiments
        /\ dbExperiments[experiments[i].id].status = "COMPLETED"

\* the experiment is in the table, ACTIVE, with end_date before today
ActiveAndExpired(e) ==
    /\ e \in DOMAIN dbExperiments
    /\ dbExperiments[e].status = "ACTIVE"
    /\ dbExperiments[e].end_date < today

\* C5: no experiment in the Active list is ACTIVE with end_date before today;
\* an auto-completion is only ever requested for an experiment shown ACTIVE
\* with end_date strictly before today; and, the requests succeeding, an
\* experiment that is ACTIVE with end_date before today leads to it being
\* COMPLETED (or deleted by the user).
C5_AutoCompletion ==
    /\ [](\A i \in 1..Len(activeExperiments) :
            ~(/\ activeExperiments[i].status = "ACTIVE"
              /\ activeExperiments[i].end_date < today))
    /\ [](\A r \in statusRequests :
            r.by = "auto" =>
                r.shown.status = "ACTIVE" /\ r.shown.end_date < today)
    /\ \A e \in ExperimentIds :
        ActiveAndExpired(e) ~>
            (e \notin DOMAIN dbExperiments
                \/ dbExperiments[e].status = "COMPLETED")

\* the page still holds an experiment as ACTIVE and past its end date, keeps
\* it out of the Active list, and the table has it COMPLETED; beside it the
\* Active list shows an experiment that ends today
C5_Witness ==
    /\ \E i \in 1..Len(experiments) :
        /\ experiments[i].status = "ACTIVE"
        /\ experiments[i].end_date < today
        /\ \A j \in 1..Len(activeExperiments) :
            activeExperiments[j].id # experiments[i].id
        /\ experiments[i].id \in DOMAIN dbExperiments
        /\ dbExperiments[experiments[i].id].status = "COMPLETED"
    /\ \E j \in 1..Len(activeExperiments) :
        activeExperiments[j].end_date = today

----------------------------------------------------------------------------
(* Experiment results *)

\* |p - n| to one decimal, in tenths
PointDifference(p, n) == ((IF p >= n THEN p - n ELSE n - p) + 5) \div 10

\* C16: in the results the dialog shows, a null condition average is
\* rendered as 'N/A' and a non-null one as a number; when either average is
\* null there is no difference, so neither the impact summary nor the
\* hypothesis verdict is shown; an average of exactly 0 is rendered as the
\* number 0.0 and, with the other average present, gives the impact summary
\* and the verdict of the difference it takes part in.
C16_NullAverageShown ==
    (resultsView.rendered /\ resultsView.panel = "results") =>
        LET p == selectedResults.positiveConditionAverage
            n == selectedResults.negativeConditionAverage
        IN  /\ (p = NullValue) <=> (resultsView.positiveAverage = [kind |-> "N/A"])
            /\ (n = NullValue) <=> (resultsView.negativeAverage = [kind |-> "N/A"])
            /\ (p = NullValue \/ n = NullValue) =>
                /\ ~resultsView.impactSummary.shown
                /\ resultsView.verdict = "none"
            /\ p = Some(0) =>
                resultsView.positiveAverage = [kind |-> "number", tenths |-> 0]
            /\ n = Some(0) =>
                resultsView.negativeAverage = [kind |-> "number", tenths |-> 0]
            /\ (p # NullValue /\ n # NullValue) =>
                /\ resultsView.impactSummary.shown
                /\ resultsView.impactSummary.pointDifference =
                        PointDifference(p[1], n[1])
                /\ resultsView.verdict =
                        (IF p[1] > n[1] THEN "supported"
                         ELSE IF p[1] < n[1] THEN "contradicted"
                         ELSE "no clear relationship")

\* results with an average of 0 for one condition and none for the other
C16_Witness ==
    /\ resultsView.rendered /\ resultsView.panel = "results"
    /\ selectedResults.positiveConditionAverage = Some(0)
    /\ selectedResults.negativeConditionAverage = NullValue
    /\ resultsView.positiveAverage = [kind |-> "number", tenths |-> 0]
    /\ resultsView.negativeAverage = [kind |-> "N/A"]
    /\ ~resultsView.impactSummary.shown

\* C18: once the analyses requested have resolved, that of the experiment
\* requested last among them, the results the dialog holds are those of the
\* experiment requested last: a request superseded before it resolved leaves
\* nothing behind, whatever the order of resolution.
C18_LatestRequestWins ==
    (analyses = {} /\ latestResolved) =>
        selectedResults.experiment = lastRequested

----------------------------------------------------------------------------
(* Findings: how createFindingAction and shareFindingAction end *)

\* C19: when the insert of a new finding succeeds, createFindingAction has
\* revalidated /community and ends with the redirect to /community/<new id>,
\* not with a message returned to the form.
C19_CreateEndsInRedirect ==
    (findingResult.action = "create" /\ findingResult.inserted # 0) =>
        /\ findingResult.revalidated
        /\ findingResult.completion =
                Redirect(<<"/community/", findingResult.inserted>>)

\* C20: the row a createFindingAction or shareFindingAction call inserted has
\* author_id equal to the authenticated user of that call, no row has no
\* author, and a call without an authenticated user inserts nothing:
\* createFindingAction returns its login message, shareFindingAction throws.
C20_AuthorIsCaller ==
    /\ \A f \in 1..Len(community_findings) :
        community_findings[f].author_id \in Users
    /\ findingResult # NoResult =>
        /\ findingResult.inserted # 0 =>
            /\ findingResult.session # NoUser
            /\ findingResult.inserted = Len(community_findings)
            /\ community_findings[findingResult.inserted].author_id =
                    findingResult.session
        /\ findingResult.session = NoUser =>
            /\ findingResult.inserted = 0
            /\ findingResult.action = "create" =>
                findingResult.completion =
                    Return([message |-> "You must be logged in to create a finding"])
            /\ findingResult.action = "share" =>
                findingResult.completion.kind = "throw"

\* user 2 has just shared a finding, after user 1 created one
C20_Witness ==
    /\ Len(community_findings) = 2
    /\ community_findings[1].author_id = 1
    /\ community_findings[2].author_id = 2
    /\ findingResult.action = "share"
    /\ findingResult.session = 2
    /\ findingResult.inserted = 2

----------------------------------------------------------------------------
(* Chart data cache *)

\* C17: the chart data a page gets from the query cache was made for a
\* request whose user, primary metric, comparison metric and date range all
\* equal those of the request it is given for, on the Data page and on the
\* Create Finding preview.
C17_CacheKeyedBySelection ==
    chartServed # NoServed => chartServed.madeFor = chartServed.request

\* the inputs createFindingAction rejects before it inserts
CreateInputRejected(input) ==
    \/ input.title = Missing \/ Trim(input.title) = <<>>
    \/ input.content = Missing \/ Trim(input.content) = <<>>
    \/ (input.chartConfig # "" /\ input.chartConfig # "{}")

\* C21: createFindingAction inserts nothing and returns a non-empty message
\* when the title or the content is missing or only whitespace, or when
\* chartConfig is present but not valid JSON; every finding it inserts has a
\* trimmed, non-empty title and content.
C21_InvalidFindingRejected ==
    findingResult # NoResult /\ findingResult.action = "create" =>
        /\ CreateInputRejected(findingResult.input) =>
            /\ findingResult.inserted = 0
            /\ findingResult.completion.kind = "return"
            /\ findingResult.completion.value.message # ""
        /\ findingResult.inserted # 0 =>
            LET row == community_findings[findingResult.inserted]
            IN  /\ row.title # <<>> /\ row.content # <<>>
                /\ Head(row.title) # " " /\ row.title[Len(row.title)] # " "
                /\ Head(row.content) # " "
                /\ row.content[Len(row.content)] # " "

\* a whitespace title was rejected, and a padded one was inserted trimmed
C21_Witness ==
    /\ findingResult # NoResult /\ findingResult.action = "create"
    /\ findingResult.inserted = 2
    /\ findingResult.input.title = <<" ", "T", " ">>
    /\ findingResult.input.content = <<"C", " ">>
    /\ community_findings[2].title = <<"T">>
    /\ community_findings[2].content = <<"C">>

\* C30: every finding row inserted by createFindingAction or
\* shareFindingAction has at most one of chart_config and experiment_id
\* non-null.
C30_OneContextPerFinding ==
    \A i \in 1..Len(community_findings) :
        \/ community_findings[i].chart_config = Null
        \/ community_findings[i].experiment_id = Null

\* the call is made with an empty id, without a session, or for a user
\* other than the session's
ForAnotherOrNoOne(call) ==
    \/ call.userId = EmptyId \/ call.findingId = EmptyId
    \/ call.session = NoUser
    \/ call.session # call.userId

\* C22: a castVoteAction or reportFindingAction call with an empty userId or
\* findingId, without an authenticated user, or with a userId other than the
\* authenticated user's returns an error and leaves finding_votes and
\* finding_reports unchanged.
C22_NoActionForAnotherUser ==
    [][(lastCall'.seq # lastCall.seq /\ ForAnotherOrNoOne(lastCall')) =>
            /\ finding_votes' = finding_votes
            /\ finding_reports' = finding_reports
            /\ lastCall'.action = "vote" =>
                    voteResult' = "error" /\ pc' = pc
            /\ lastCall'.action = "report" => reportResult' = "error"]_vars

\* user 2 called both actions for user 1 after user 1 voted and reported
C22_Witness ==
    /\ lastCall.seq = 3 /\ lastCall.session = 2 /\ lastCall.userId = 1
    /\ lastCall.findingId = 1
    /\ finding_votes = SetToBag({VoteRow(1, 1, "upvote")})
    /\ Len(finding_reports) = 1 /\ finding_reports[1].user_id = 1
    /\ voteResult = "error"

\* C23: a castVoteAction call returns success exactly when its vote row
\* write was made, whether or not the vote-processor call then fails; when
\* the lookup or the write fails it returns an error straight away, without
\* the step that invokes the vote processor and revalidates the cache.
C23_SuccessIffVoteWritten ==
    [][\A c \in Calls :
        /\ (pc[c] = "invoke" /\ pc'[c] = "idle") =>
                voteResult' = "success" /\ finding_votes' = finding_votes
        /\ (pc[c] \in {"select", "write"} /\ pc'[c] = "idle") =>
                /\ voteResult' = "error"
                /\ finding_votes' = finding_votes
                /\ community_findings' = community_findings
        /\ (pc[c] # "invoke" /\ pc'[c] = "invoke") =>
                /\ pc[c] = "write"
                /\ finding_votes' =
                        VoteWrite(finding_votes, existingVote[c], voteArgs[c])
                /\ voteResult' = voteResult]_vars

\* the vote is recorded and the call succeeded although the vote processor
\* failed: the finding's counts are those of before the vote
C23_Witness ==
    /\ voteResult = "success"
    /\ pc[1] = "idle"
    /\ Len(community_findings) >= 1
    /\ finding_votes = SetToBag({VoteRow(1, 1, "upvote")})
    /\ community_findings[1].upvotes = 0

\* C26: for every experiment with start_date <= end_date, the totalDays of
\* getExperimentProgress equals the day count of getExperimentDuration, and
\* both equal the number of days of the inclusive range.
C26_TotalDaysIsDuration ==
    labCard.shown =>
        /\ labCard.duration = labCard.end_date - labCard.start_date + 1
        /\ labCard.progress.totalDays = labCard.duration

\* C27: for today within [start_date, end_date] getExperimentProgress reports
\* 'active', a percentage in [0, 100] and daysElapsed equal to the 1-based
\* index of today in the range; it reports 'upcoming' exactly when today is
\* before start_date and 'completed' exactly when today is after end_date.
C27_ProgressFollowsToday ==
    labCard.shown =>
        /\ (labCard.progress.status = "upcoming") =
                (labCard.today < labCard.start_date)
        /\ (labCard.progress.status = "completed") =
                (labCard.today > labCard.end_date)
        /\ (labCard.start_date <= labCard.today
                /\ labCard.today <= labCard.end_date) =>
            /\ labCard.progress.status = "active"
            /\ 0 <= labCard.progress.percentage[1]
            /\ labCard.progress.percentage[1] <= labCard.progress.percentage[2]
            /\ labCard.progress.daysElapsed =
                    labCard.today - labCard.start_date + 1
            /\ labCard.progress.daysElapsed <= labCard.progress.totalDays

\* the ids of the experiments of a list
IdsOf(exps) == {exps[i].id : i \in 1..Len(exps)}

\* C24: an experiment the user reactivated stays ACTIVE until the user
\* completes or deletes it, and once the refetched list has been rendered it
\* is in the Active list, whatever its end_date.
C24_ReactivatedStaysActive ==
    \A id \in reactivated :
        id \in DOMAIN dbExperiments =>
            /\ dbExperiments[id].status = "ACTIVE"
            /\ (/\ ~fetching
                /\ experiments = GetExperiments(dbExperiments)
                /\ completedExperiments = CompletedExperiments(experiments))
                => id \in IdsOf(activeExperiments)

\* C25: for each fetched experiments list the renders issue at most one
\* auto-update request per expired ACTIVE experiment of the list.
C25_AutoRequestsBounded ==
    autoIssued <= Cardinality(AutoRequests(experiments, today))

\* the chart is drawn with a comparison line
ComparisonDrawn ==
    primaryMetric # NoMetric /\ comparisonMetric # NoMetric /\ axisConfig # NoConfig

\* C28: with a NUMERIC primary and a SCALE_1_10 comparison metric, the k-th
\* right tick is formatted as the label k for each k in 1..10, and a
\* comparison value k is drawn at the height of the right tick labelled k.
C28_ScaleValuesOnTheirTicks ==
    (ComparisonDrawn /\ primaryMetric = "NUMERIC"
            /\ comparisonMetric = "SCALE_1_10") =>
        /\ Len(axisConfig.rightTicks) = 10
        /\ \A k \in 1..10 :
                FormatRightTick(axisConfig, axisConfig.rightTicks[k]) = k
        /\ \A i \in 1..Len(chartData) :
            \A k \in 1..10 :
                chartData[i].comparisonValue = Some(k) =>
                    LET line == ComparisonLine(axisConfig, chartData[i])
                    IN  Position(line.value[1], AxisDomain(axisConfig, line.axis))
                        = Position(axisConfig.rightTicks[k], axisConfig.rightDomain)

\* the values a metric of a type takes
ValidFor(type, v) ==
    IF type = "SCALE_1_10" THEN v \in 1..10
    ELSE IF type = "BOOLEAN" THEN v \in {0, 1}
    ELSE IF type = "NUMERIC" THEN v >= 0
    ELSE FALSE

Within(value, domain) == domain[1] <= value /\ value <= domain[2]

\* C29: every non-null value that is plotted lies inside the domain of the
\* axis it is plotted against, for every type pair and every series of
\* values valid for those types.
C29_PlottedWithinDomain ==
    (primaryMetric # NoMetric /\ axisConfig # NoConfig) =>
        \A i \in 1..Len(chartData) :
            /\ (/\ chartData[i].primaryValue # NullValue
                /\ ValidFor(primaryMetric, chartData[i].primaryValue[1])) =>
                    Within(PrimaryLine(chartData[i]).value[1],
                           AxisDomain(axisConfig, PrimaryLine(chartData[i]).axis))
            /\ (/\ comparisonMetric # NoMetric
                /\ chartData[i].comparisonValue # NullValue
                /\ ValidFor(comparisonMetric, chartData[i].comparisonValue[1])
                /\ ComparisonLine(axisConfig, chartData[i]).value # NullValue) =>
                    Within(ComparisonLine(axisConfig, chartData[i]).value[1],
                           AxisDomain(axisConfig,
                                ComparisonLine(axisConfig, chartData[i]).axis))

====
